---------------------------- MODULE Spec2Model ----------------------------
(***************************************************************************)
(* Payee matcher (finexio-matcher): canonicalization, candidate views,     *)
(* union, scoring, thresholded decision, review queue, batch driver and    *)
(* review endpoints, modelled from the Python sources under                 *)
(* src/finexio-matcher/app.                                                 *)
(*                                                                         *)
(* Conventions.  A raw name is a sequence of one-character strings.        *)
(* Probabilities and view scores are fixed point: ONE = 100000 stands for  *)
(* 1.0, so 0.97 is 97000 and 0.60 is 60000.  Feature values that the code  *)
(* obtains from outside the repository (rapidfuzz ratios, the storage      *)
(* engine's trigram similarity, the learned model's output, the LLM reply, *)
(* storage failures) are inputs of the actions.                            *)
(***************************************************************************)
EXTENDS Integers, Sequences, FiniteSets, TLC

VARIABLES
    settings,        \* app.config.settings and classifier.is_trained (fixed per run)
    payees,          \* table payees: payee_id -> row
    review_queue,    \* table review_queue: sequence of rows, rq_id = index
    labels,          \* table labels: sequence of rows
    embedding_cache, \* table embedding_cache: set of rows
    result,          \* outcome of the latest match_one call
    batch,           \* batch_process / streaming generator in progress
    reqs,            \* review requests (approve / reject) in progress
    call             \* one direct call of a function of the pipeline and what it returned

vars == <<settings, payees, review_queue, labels, embedding_cache, result, batch, reqs, call>>

-----------------------------------------------------------------------------
(* Characters *)

LowerLetters == <<"a","b","c","d","e","f","g","h","i","j","k","l","m",
                  "n","o","p","q","r","s","t","u","v","w","x","y","z">>
UpperLetters == <<"A","B","C","D","E","F","G","H","I","J","K","L","M",
                  "N","O","P","Q","R","S","T","U","V","W","X","Y","Z">>
DigitChars == <<"0","1","2","3","4","5","6","7","8","9">>

\* Code point order of the characters that survive cleaning: '&' < digits < letters.
CharOrder == <<"&">> \o DigitChars \o LowerLetters

Range(s) == {s[i] : i \in 1..Len(s)}

IsLetter(c) == c \in Range(LowerLetters)
IsDigit(c) == c \in Range(DigitChars)
IsSpace(c) == c = " "
\* \w of the regex engine, on text that is already lowercased.
IsWordChar(c) == IsLetter(c) \/ IsDigit(c) \/ c = "_"

Ord(c) == IF c \in Range(CharOrder)
          THEN CHOOSE i \in 1..Len(CharOrder) : CharOrder[i] = c
          ELSE 0

\* str.lower() on one character.
Lower(c) == IF c \in Range(UpperLetters)
            THEN LowerLetters[CHOOSE i \in 1..26 : UpperLetters[i] = c]
            ELSE c

RECURSIVE Join(_)
\* ''.join(chars): a character sequence as a string.
Join(cs) == IF cs = <<>> THEN "" ELSE Head(cs) \o Join(Tail(cs))

RECURSIVE JoinWith(_, _)
\* sep.join(strings)
JoinWith(strs, sep) ==
    IF strs = <<>> THEN ""
    ELSE IF Len(strs) = 1 THEN strs[1]
    ELSE strs[1] \o sep \o JoinWith(Tail(strs), sep)

RECURSIVE Flatten(_)
\* ' '.join(tokens) kept as a character sequence.
Flatten(toks) ==
    IF toks = <<>> THEN <<>>
    ELSE IF Len(toks) = 1 THEN toks[1]
    ELSE toks[1] \o <<" ">> \o Flatten(Tail(toks))

-----------------------------------------------------------------------------
(* canonicalize.py *)

GENERIC_WORDS ==
    {"the", "of", "and", "group", "company", "services",
     "holdings", "solutions", "global", "international",
     "enterprises", "partners", "associates", "consulting"}

CORPORATE_SUFFIXES ==
    {"co", "inc", "incorporated", "llc", "l.l.c", "llp", "ltd", "limited",
     "corp", "corporation", "plc", "p.l.c", "lp", "l.p",
     "gmbh", "bv", "nv", "sa", "ag", "oy", "kk", "srl", "spa",
     "pty", "kft", "sp z o.o", "s.a.", "s.a.s.", "aps", "ab", "as",
     "oyj", "k.k.", "bvba", "e.k.", "sarl", "eurl", "sas", "snc",
     "pty ltd", "pvt ltd", "private limited", "public limited",
     "limitada", "ltda", "sl", "s.l.", "cv", "c.v.", "de cv"}

\* The dict ABBREVIATIONS in insertion order: <<abbr, full>>.
ABBREVIATIONS ==
    << << <<"i","n","t","l">>, <<"i","n","t","e","r","n","a","t","i","o","n","a","l">> >>,
       << <<"n","a","t","l">>, <<"n","a","t","i","o","n","a","l">> >>,
       << <<"a","s","s","o","c">>, <<"a","s","s","o","c","i","a","t","e","s">> >>,
       << <<"m","g","m","t">>, <<"m","a","n","a","g","e","m","e","n","t">> >>,
       << <<"s","v","c","s">>, <<"s","e","r","v","i","c","e","s">> >>,
       << <<"g","r","p">>, <<"g","r","o","u","p">> >>,
       << <<"c","o">>, <<"c","o","m","p","a","n","y">> >>,
       << <<"c","o","r","p">>, <<"c","o","r","p","o","r","a","t","i","o","n">> >>,
       << <<"i","n","c">>, <<"i","n","c","o","r","p","o","r","a","t","e","d">> >>,
       << <<"l","t","d">>, <<"l","i","m","i","t","e","d">> >> >>

RECURSIVE LStrip(_)
LStrip(s) == IF s # <<>> /\ IsSpace(Head(s)) THEN LStrip(Tail(s)) ELSE s

RECURSIVE RStrip(_)
RStrip(s) == IF s # <<>> /\ IsSpace(s[Len(s)]) THEN RStrip(SubSeq(s, 1, Len(s) - 1)) ELSE s

\* str.strip()
Strip(s) == RStrip(LStrip(s))

\* NFKD followed by dropping the combining marks, on the accented characters in use.
FoldChar(c) == IF c = "é" THEN "e" ELSE c

remove_diacritics(s) == [i \in 1..Len(s) |-> FoldChar(s[i])]

KeptChar(c) == IsLetter(c) \/ IsDigit(c) \/ c = "&" \/ IsSpace(c)

RECURSIVE SubNonAlnum(_)
\* re.sub(r'[^a-z0-9&\s]+', ' ', text): each maximal run becomes one space.
SubNonAlnum(s) ==
    IF s = <<>> THEN <<>>
    ELSE IF KeptChar(Head(s)) THEN <<Head(s)>> \o SubNonAlnum(Tail(s))
    ELSE LET RECURSIVE Skip(_)
             Skip(t) == IF t # <<>> /\ ~KeptChar(Head(t)) THEN Skip(Tail(t)) ELSE t
         IN <<" ">> \o SubNonAlnum(Skip(s))

\* Does abbr occur at position i of s between two word boundaries (\b)?
AbbrAt(s, i, abbr) ==
    /\ i + Len(abbr) - 1 <= Len(s)
    /\ SubSeq(s, i, i + Len(abbr) - 1) = abbr
    /\ (i = 1 \/ ~IsWordChar(s[i - 1]))
    /\ (i + Len(abbr) > Len(s) \/ ~IsWordChar(s[i + Len(abbr)]))

RECURSIVE SubAbbrFrom(_, _, _, _)
SubAbbrFrom(s, i, abbr, full) ==
    IF i > Len(s) THEN <<>>
    ELSE IF AbbrAt(s, i, abbr)
         THEN full \o SubAbbrFrom(s, i + Len(abbr), abbr, full)
         ELSE <<s[i]>> \o SubAbbrFrom(s, i + 1, abbr, full)

\* re.sub(rf'\b{abbr}\b', full, text)
SubAbbr(s, abbr, full) == SubAbbrFrom(s, 1, abbr, full)

RECURSIVE ExpandFrom(_, _)
ExpandFrom(s, k) ==
    IF k > Len(ABBREVIATIONS) THEN s
    ELSE ExpandFrom(SubAbbr(s, ABBREVIATIONS[k][1], ABBREVIATIONS[k][2]), k + 1)

\* for abbr, full in ABBREVIATIONS.items(): text = re.sub(...)
ExpandAbbreviations(s) == ExpandFrom(s, 1)

RECURSIVE SplitFrom(_, _)
SplitFrom(s, cur) ==
    IF s = <<>> THEN (IF cur = <<>> THEN <<>> ELSE <<cur>>)
    ELSE IF IsSpace(Head(s))
         THEN (IF cur = <<>> THEN <<>> ELSE <<cur>>) \o SplitFrom(Tail(s), <<>>)
         ELSE SplitFrom(Tail(s), Append(cur, Head(s)))

\* str.split(): the maximal runs of non-whitespace.
Split(s) == SplitFrom(s, <<>>)

\* The filter that leaves the leading token alone.
SelectAfterFirst(toks) ==
    IF toks = <<>> THEN <<>>
    ELSE <<Head(toks)>> \o SelectSeq(Tail(toks),
             LAMBDA t : Join(t) \notin GENERIC_WORDS /\ Join(t) \notin CORPORATE_SUFFIXES)

RECURSIVE SelectTokens(_)
\* [t for t in tokens if t not in GENERIC_WORDS and t not in CORPORATE_SUFFIXES]
SelectTokens(toks) ==
    IF toks = <<>> THEN <<>>
    ELSE IF Join(Head(toks)) \notin GENERIC_WORDS /\ Join(Head(toks)) \notin CORPORATE_SUFFIXES
         THEN <<Head(toks)>> \o SelectTokens(Tail(toks))
         ELSE SelectTokens(Tail(toks))

\* re.match(r'^[a-z]\.([a-z]\.)*$', token)
IsDottedInitials(t) ==
    /\ Len(t) >= 2
    /\ Len(t) % 2 = 0
    /\ \A i \in 1..Len(t) : IF i % 2 = 1 THEN IsLetter(t[i]) ELSE t[i] = "."

\* re.match(r'^[a-z]+\d+$', token)
IsStemDigits(t) ==
    \E k \in 1..(Len(t) - 1) :
        /\ \A i \in 1..k : IsLetter(t[i])
        /\ \A i \in (k + 1)..Len(t) : IsDigit(t[i])

RECURSIVE StripTrailingDigits(_)
\* re.sub(r'\d+$', '', token)
StripTrailingDigits(t) ==
    IF t # <<>> /\ IsDigit(t[Len(t)]) THEN StripTrailingDigits(SubSeq(t, 1, Len(t) - 1)) ELSE t

RemoveDots(t) == SelectSeq(t, LAMBDA c : c # ".")

SpecialCase(t) ==
    LET t1 == IF IsDottedInitials(t) THEN RemoveDots(t) ELSE t
    IN IF IsStemDigits(t1) THEN StripTrailingDigits(t1) ELSE t1

handle_special_cases(toks) == [i \in 1..Len(toks) |-> SpecialCase(toks[i])]

RECURSIVE LexLess(_, _)
\* Python's str < str: lexicographic by code point.
LexLess(a, b) ==
    IF b = <<>> THEN FALSE
    ELSE IF a = <<>> THEN TRUE
    ELSE IF Ord(Head(a)) # Ord(Head(b)) THEN Ord(Head(a)) < Ord(Head(b))
    ELSE LexLess(Tail(a), Tail(b))

RECURSIVE SortedSet(_)
\* sorted(set(...)) of tokens
SortedSet(S) ==
    IF S = {} THEN <<>>
    ELSE LET m == CHOOSE x \in S : \A y \in S \ {x} : LexLess(x, y)
         IN <<m>> \o SortedSet(S \ {m})

HasLetter(t) == \E i \in 1..Len(t) : IsLetter(t[i])

\* doublemetaphone(token) is a third-party encoder: a token with no letter encodes
\* to ('', ''); otherwise the primary code is non-empty and a function of the
\* token.  The code is abstracted to a tag naming the letters of the token.
doublemetaphone(t) ==
    IF HasLetter(t) THEN <<"DM:" \o Join(SelectSeq(t, IsLetter)), "">> ELSE <<"", "">>

\* canon and tokens are strings; chars and token_chars are the same values as
\* character sequences, for the code that looks inside them.
EmptyCanon == [canon |-> "", chars |-> <<>>, tokens |-> <<>>, token_chars |-> <<>>, dm_codes |-> {}]

\* name_raw.lower().strip()
LowerStrip(name_raw) == Strip([i \in 1..Len(name_raw) |-> Lower(name_raw[i])])

\* The dict canonicalize returns for the sorted, de-duplicated tokens toks.
CanonData(toks) ==
    [canon |-> JoinWith([i \in 1..Len(toks) |-> Join(toks[i])], " "),
     chars |-> Flatten(toks),
     tokens |-> [i \in 1..Len(toks) |-> Join(toks[i])],
     token_chars |-> toks,
     dm_codes |-> UNION {Range(doublemetaphone(toks[i])) \ {""} : i \in 1..Len(toks)}]

canonicalize(name_raw) ==
    IF name_raw = <<>> \/ Strip(name_raw) = <<>> THEN EmptyCanon
    ELSE CanonData(SortedSet(Range(handle_special_cases(SelectTokens(Split(
             ExpandAbbreviations(SubNonAlnum(remove_diacritics(LowerStrip(name_raw))))))))
                             \ {<<>>}))

-----------------------------------------------------------------------------
(* Fixed point, configuration *)

\* 1.0 in fixed point.
ONE == 1000 * 100

\* settings.t_high = 0.97 and settings.t_low = 0.60
t_high == 97000
t_low == 60000

\* settings.topk_trigram / topk_phonetic / k_union, scaled down with the registry.
topk_trigram == 1
topk_phonetic == 1
k_union == 2

Min(a, b) == IF a < b THEN a ELSE b
Max(a, b) == IF a > b THEN a ELSE b

RECURSIVE SeqSum(_)
SeqSum(s) == IF s = <<>> THEN 0 ELSE Head(s) + SeqSum(Tail(s))

RECURSIVE SeqMax(_)
SeqMax(s) == IF Len(s) = 1 THEN s[1] ELSE Max(Head(s), SeqMax(Tail(s)))

\* s[:n]
Take(s, n) == SubSeq(s, 1, Min(n, Len(s)))

RECURSIVE StableSortDesc(_, _)
\* sorted(s, key=..., reverse=True) / list.sort(key=..., reverse=True): descending
\* by key, elements with equal keys keep their original relative order.
\* keys[i] is the key of s[i].
StableSortDesc(s, keys) ==
    IF s = <<>> THEN <<>>
    ELSE LET i == CHOOSE k \in 1..Len(s) :
                      /\ \A j \in 1..Len(s) : keys[j] <= keys[k]
                      /\ \A j \in 1..(k - 1) : keys[j] < keys[k]
             Drop(t) == [j \in 1..(Len(t) - 1) |-> IF j < i THEN t[j] ELSE t[j + 1]]
         IN <<s[i]>> \o StableSortDesc(Drop(s), Drop(keys))

-----------------------------------------------------------------------------
(* candidates.py *)

\* A view row is <<payee_id, score, source>>; source is <<type, score>> for the
\* string f"{type}:{score:.3f}", and source.split(":")[0] is its first part.
SourceType(source) == source[1]

\* A query outcome res is [error |-> the statement raised, rows |-> its rows].

\* get_trigram_candidates: res.rows is what the storage engine returns for the
\* similarity query (<<payee_id, score>>, ordered by score, at most LIMIT rows).
get_trigram_candidates(res) ==
    IF res.error THEN <<>>
    ELSE [i \in 1..Len(res.rows) |->
            <<res.rows[i][1], res.rows[i][2], <<"trgm", res.rows[i][2]>> >>]

\* The tail of get_vector_candidates after the embedding has been obtained.
VectorRows(res) ==
    IF res.error THEN <<>>
    ELSE [i \in 1..Len(res.rows) |->
            <<res.rows[i][1], res.rows[i][2], <<"vec", res.rows[i][2]>> >>]

\* intersection / union of the two code sets, in fixed point.
Jaccard(A, B) == IF A \cup B = {} THEN 0 ELSE (ONE * Cardinality(A \cap B)) \div Cardinality(A \cup B)

RECURSIVE PhoneticRows(_, _, _)
\* The loop over the result rows: keep rows with overlap_count, score by Jaccard.
PhoneticRows(db_payees, order, dm_codes) ==
    IF order = <<>> THEN <<>>
    ELSE LET row == db_payees[Head(order)]
             rest == PhoneticRows(db_payees, Tail(order), dm_codes)
         IN IF Cardinality(row.dm_codes \cap dm_codes) > 0 /\ row.dm_codes # {} /\ dm_codes # {}
            THEN << <<row.payee_id, Jaccard(row.dm_codes, dm_codes),
                      <<"dm", Jaccard(row.dm_codes, dm_codes)>> >> >> \o rest
            ELSE rest

\* get_phonetic_candidates: res.rows is the sequence of payee ids the overlap
\* query returns (ORDER BY overlap_count DESC, LIMIT).
get_phonetic_candidates(db_payees, dm_codes, res) ==
    IF dm_codes = {} THEN <<>>
    ELSE IF res.error THEN <<>>
    ELSE LET found == PhoneticRows(db_payees, res.rows, dm_codes)
         IN Take(StableSortDesc(found, [i \in 1..Len(found) |-> found[i][2]]), topk_phonetic)

\* A probe that reports no row whatever the query returned.
ExactProbeMisses(res) == <<>>

\* get_exact_match: res.rows is <<>> or holds the payee_id of the one row that
\* SELECT ... WHERE name_canon = :query LIMIT 1 returned.
get_exact_match(res) ==
    IF res.error THEN <<>>
    ELSE IF res.rows # <<>> THEN << <<res.rows[1], ONE, <<"exact", ONE>> >> >>
    ELSE <<>>

\* payee_scores[payee_id]["scores"][source_type] = score
PutScore(scores, type, score) ==
    [t \in (DOMAIN scores) \cup {type} |-> IF t = type THEN score ELSE scores[t]]

\* One (payee_id, score, source) tuple folded into the insertion-ordered dict.
AddTuple(entries, tup) ==
    IF \E i \in 1..Len(entries) : entries[i].payee_id = tup[1]
    THEN [i \in 1..Len(entries) |->
            IF entries[i].payee_id = tup[1]
            THEN [entries[i] EXCEPT !.scores = PutScore(@, SourceType(tup[3]), tup[2]),
                                    !.sources = Append(@, tup[3])]
            ELSE entries[i]]
    ELSE Append(entries, [payee_id |-> tup[1],
                          scores |-> PutScore(<<>>, SourceType(tup[3]), tup[2]),
                          sources |-> <<tup[3]>>])

RECURSIVE AddList(_, _)
AddList(entries, tups) ==
    IF tups = <<>> THEN entries ELSE AddList(AddTuple(entries, Head(tups)), Tail(tups))

RECURSIVE Aggregate(_, _)
\* for candidates in candidates_lists: for payee_id, score, source in candidates: ...
Aggregate(entries, lists) ==
    IF lists = <<>> THEN entries ELSE Aggregate(AddList(entries, Head(lists)), Tail(lists))

ScoreValues(scores) ==
    LET types == SelectSeq(<<"exact", "trgm", "vec", "dm">>, LAMBDA t : t \in DOMAIN scores)
    IN [i \in 1..Len(types) |-> scores[types[i]]]

WithStats(e) ==
    LET vals == ScoreValues(e.scores)
    IN [payee_id |-> e.payee_id, scores |-> e.scores, sources |-> e.sources,
        max_score |-> IF vals = <<>> THEN 0 ELSE SeqMax(vals),
        avg_score |-> IF vals = <<>> THEN 0 ELSE SeqSum(vals) \div Len(vals),
        num_sources |-> Len(vals)]

\* key=lambda x: (x["max_score"], x["num_sources"]): the tuple order, as one integer
\* (num_sources is at most 4).
UnionKey(c) == c.max_score * 8 + c.num_sources

union_candidates(candidates_lists) ==
    LET entries == Aggregate(<<>>, candidates_lists)
        stats == [i \in 1..Len(entries) |-> WithStats(entries[i])]
    IN Take(StableSortDesc(stats, [i \in 1..Len(stats) |-> UnionKey(stats[i])]), k_union)

-----------------------------------------------------------------------------
(* utils.py: get_embedding *)

\* get_embedding(text).  Empty text returns the zero vector.  Otherwise the
\* in-memory cache function returns None for every key (it caches the result of a
\* function that returns None), and the database lookup evaluates
\* text("""SELECT ...""") where text is the str parameter of get_embedding, which
\* shadows sqlalchemy.text: calling a str raises TypeError before any query is
\* sent, outside any try block.
get_embedding(canon) ==
    IF canon = "" THEN [raised |-> FALSE, vec |-> "zeros"]
    ELSE [raised |-> TRUE, vec |-> "none"]

-----------------------------------------------------------------------------
(* features.py *)

RECURSIVE ScanFor(_, _, _)
\* while j < len(longer): if longer[j] == char: found, j += 1, break; j += 1
\* Returns the new j, or 0 when the character is not found (j is 1-based here).
ScanFor(longer, j, char) ==
    IF j > Len(longer) THEN 0
    ELSE IF longer[j] = char THEN j + 1
    ELSE ScanFor(longer, j + 1, char)

RECURSIVE InOrder(_, _, _)
\* the loop "for char in shorter" of check_abbreviation
InOrder(shorter, longer, j) ==
    IF shorter = <<>> THEN TRUE
    ELSE IF Head(shorter) = " " THEN InOrder(Tail(shorter), longer, j)
    ELSE LET j2 == ScanFor(longer, j, Head(shorter))
         IN IF j2 = 0 THEN FALSE ELSE InOrder(Tail(shorter), longer, j2)

check_abbreviation(text1, text2) ==
    IF Len(text1) = Len(text2) THEN 0
    ELSE LET shorter == IF Len(text1) < Len(text2) THEN text1 ELSE text2
             longer == IF Len(text1) < Len(text2) THEN text2 ELSE text1
         IN IF 2 * Len(shorter) > Len(longer) THEN 0     \* len(shorter) > len(longer) * 0.5
            ELSE IF InOrder(shorter, longer, 1) THEN ONE ELSE 0

RECURSIVE ReplaceFrom(_, _, _, _)
ReplaceFrom(s, i, pat, rep) ==
    IF i > Len(s) THEN <<>>
    ELSE IF i + Len(pat) - 1 <= Len(s) /\ SubSeq(s, i, i + Len(pat) - 1) = pat
         THEN rep \o ReplaceFrom(s, i + Len(pat), pat, rep)
         ELSE <<s[i]>> \o ReplaceFrom(s, i + 1, pat, rep)

\* str.replace(pat, rep)
Replace(s, pat, rep) == ReplaceFrom(s, 1, pat, rep)

\* The list variations of check_common_variations: <<long_form, short_form>>.
Variations ==
    << << <<"a","n","d">>, <<"&">> >>,
       <<ABBREVIATIONS[8][2], ABBREVIATIONS[8][1]>>,     \* corporation, corp
       <<ABBREVIATIONS[9][2], ABBREVIATIONS[9][1]>>,     \* incorporated, inc
       <<ABBREVIATIONS[10][2], ABBREVIATIONS[10][1]>>,   \* limited, ltd
       <<ABBREVIATIONS[7][2], ABBREVIATIONS[7][1]>>,     \* company, co
       <<ABBREVIATIONS[1][2], ABBREVIATIONS[1][1]>>,     \* international, intl
       <<ABBREVIATIONS[2][2], ABBREVIATIONS[2][1]>>,     \* national, natl
       <<ABBREVIATIONS[3][2], ABBREVIATIONS[3][1]>>,     \* associates, assoc
       <<ABBREVIATIONS[4][2], ABBREVIATIONS[4][1]>>,     \* management, mgmt
       <<ABBREVIATIONS[5][2], ABBREVIATIONS[5][1]>> >>   \* services, svcs

Padded(w) == <<" ">> \o w \o <<" ">>

check_common_variations(text1, text2) ==
    LET t1 == Padded([i \in 1..Len(text1) |-> Lower(text1[i])])
        t2 == Padded([i \in 1..Len(text2) |-> Lower(text2[i])])
    IN IF \E k \in 1..Len(Variations) :
              Strip(Replace(t1, Padded(Variations[k][1]), Padded(Variations[k][2])))
                = Strip(Replace(t2, Padded(Variations[k][1]), Padded(Variations[k][2])))
       THEN ONE ELSE 0

\* str.upper() on one character.
Upper(c) == IF c \in Range(LowerLetters)
            THEN UpperLetters[CHOOSE i \in 1..26 : LowerLetters[i] = c]
            ELSE c

\* str.isalpha() on one character of a canonical token.
IsAlpha(c) == c \in Range(LowerLetters) \cup Range(UpperLetters)

\* extract_initials over the tokens taken in sorted order.
extract_initials(token_chars) ==
    LET alpha == SelectSeq(token_chars, LAMBDA t : t # <<>> /\ IsAlpha(t[1]))
    IN [i \in 1..Len(alpha) |-> Upper(alpha[i][1])]

\* q_initials == c_initials, where each side is extract_initials(list(a set)):
\* the iteration order of a set of str is not fixed by the language.  Sorted
\* tokens give sorted initials, so the two strings can be equal only when the
\* sorted initials are equal; they are then equal for certain when at most one
\* distinct letter occurs, and otherwise only if the two set orders agree
\* (same_order).
InitialsMatch(q_token_chars, c_token_chars, same_order) ==
    LET qi == extract_initials(q_token_chars)
        ci == extract_initials(c_token_chars)
    IN IF qi # ci THEN 0
       ELSE IF Cardinality(Range(qi)) <= 1 THEN ONE
       ELSE IF same_order THEN ONE ELSE 0

\* The four rapidfuzz values the heuristic reads, for two identical strings.
FuzzIdentical == [token_set_ratio |-> ONE, token_sort_ratio |-> ONE,
                  jaro_winkler |-> ONE, levenshtein |-> ONE]

ScoreOr0(scores, t) == IF t \in DOMAIN scores THEN scores[t] ELSE 0

\* The feature dict of compute_features for query q = canonicalize(query_name)
\* and candidate record c: the features the scorer reads.  fuzz holds the rapidfuzz values for this pair of canonical
\* strings when they differ.
Features(q, c, candidate_scores, fuzz, same_order) ==
    LET fz == IF q.canon = c.name_canon THEN FuzzIdentical ELSE fuzz
        q_tokens == Range(q.tokens)
        c_tokens == Range(c.name_tokens)
        lq == Len(q.chars)
        lc == Len(c.canon_chars)
    IN [token_set_ratio |-> fz.token_set_ratio,
        token_sort_ratio |-> fz.token_sort_ratio,
        levenshtein |-> fz.levenshtein,
        jaro_winkler |-> fz.jaro_winkler,
        trgm_score |-> ScoreOr0(candidate_scores, "trgm"),
        vec_score |-> ScoreOr0(candidate_scores, "vec"),
        dm_score |-> ScoreOr0(candidate_scores, "dm"),
        num_sources |-> Cardinality({t \in DOMAIN candidate_scores : candidate_scores[t] > 0}),
        dm_jaccard |-> IF q.dm_codes # {} /\ c.dm_codes # {}
                       THEN Jaccard(q.dm_codes, c.dm_codes) ELSE 0,
        token_jaccard |-> IF q_tokens # {} /\ c_tokens # {}
                          THEN Jaccard(q_tokens, c_tokens) ELSE 0,
        len_ratio |-> (ONE * Min(lq, lc)) \div Max(Max(lq, lc), 1),
        initials_match |-> InitialsMatch(q.token_chars, c.token_chars, same_order),
        is_abbreviation |-> check_abbreviation(q.chars, c.canon_chars),
        has_common_variation |-> check_common_variations(q.chars, c.canon_chars),
        exact_match |-> IF q.canon = c.name_canon THEN ONE ELSE 0]

compute_features(query_name, candidate_record, candidate_scores, fuzz, same_order) ==
    Features(canonicalize(query_name), candidate_record, candidate_scores, fuzz, same_order)

-----------------------------------------------------------------------------
(* classifier.py *)

\* The value heuristic_score returns for an exact canonical match: 0.99.
ExactScore == 99000

\* The score as computed, without the final limits.
Unclamped(x) == x

\* min(max(score, 0.0), 1.0)
Clamp01(x) == Min(Max(x, 0), ONE)

heuristic_score(f) ==
    IF f.exact_match = ONE THEN ExactScore
    ELSE LET weighted == (25 * f.token_set_ratio + 20 * f.token_sort_ratio
                          + 15 * f.jaro_winkler + 10 * f.levenshtein
                          + 10 * f.trgm_score + 5 * f.vec_score
                          + 5 * f.dm_jaccard + 5 * f.token_jaccard) \div 100
             special == (IF f.initials_match = ONE THEN 5000 ELSE 0)
                        + (IF f.is_abbreviation = ONE THEN 10000 ELSE 0)
                        + (IF f.has_common_variation = ONE THEN 10000 ELSE 0)
             score == weighted + special
             damped == IF 2 * f.len_ratio < ONE THEN (score * 8) \div 10 ELSE score
         IN Clamp01(damped)

\* predict_proba: model_out is what self.model.predict_proba does for this feature
\* vector, [error |-> it raises, proba |-> the value]; read only when a model is
\* loaded.
predict_proba(f, is_trained, model_out) ==
    IF is_trained
    THEN IF model_out.error THEN heuristic_score(f) ELSE model_out.proba
    ELSE heuristic_score(f)

-----------------------------------------------------------------------------
(* The storage engine's side of the view queries *)

Orderings(S) ==
    {p \in [1..Cardinality(S) -> S] : \A i, j \in 1..Cardinality(S) : i # j => p[i] # p[j]}

\* The results a query "ORDER BY key DESC LIMIT limit" may return over the rows
\* ids: every order in which rows with equal keys come out.
OrderedLimited(ids, key, limit) ==
    {Take(p, limit) : p \in {q \in Orderings(ids) :
                                \A i \in 1..(Len(q) - 1) : key[q[i]] >= key[q[i + 1]]}}

RECURSIVE WordTrigrams(_)
WordTrigrams(w) ==
    IF Len(w) < 3 THEN {} ELSE {SubSeq(w, 1, 3)} \cup WordTrigrams(Tail(w))

\* pg_trgm: the trigrams of a string are those of its alphanumeric words, each
\* padded with two spaces in front and one behind.
Trigrams(chars) ==
    LET words == Split([i \in 1..Len(chars) |->
                          IF IsLetter(chars[i]) \/ IsDigit(chars[i]) THEN chars[i] ELSE " "])
    IN UNION {WordTrigrams(<<" ", " ">> \o words[i] \o <<" ">>) : i \in 1..Len(words)}

\* pg_trgm similarity(a, b)
similarity(a, b) == Jaccard(Trigrams(a), Trigrams(b))

\* pg_trgm.similarity_threshold, the default 0.3 of the operator %
similarity_threshold == 30000

\* What the trigram query of get_trigram_candidates may return.
TrigramResults(db_payees, query_chars) ==
    LET sim == [id \in DOMAIN db_payees |-> similarity(db_payees[id].canon_chars, query_chars)]
        hits == {id \in DOMAIN db_payees : sim[id] >= similarity_threshold}
    IN {[i \in 1..Len(o) |-> <<o[i], sim[o[i]]>>] : o \in OrderedLimited(hits, sim, topk_trigram)}

\* What the overlap query of get_phonetic_candidates may return (payee ids).
PhoneticResults(db_payees, dm_codes) ==
    LET overlap == [id \in DOMAIN db_payees |-> Cardinality(db_payees[id].dm_codes \cap dm_codes)]
        hits == {id \in DOMAIN db_payees : overlap[id] > 0}
    IN OrderedLimited(hits, overlap, topk_phonetic)

\* What the probe of get_exact_match may return: no row, else any one matching
\* row (LIMIT 1 without ORDER BY).
ExactResults(db_payees, query_canon) ==
    LET hits == {id \in DOMAIN db_payees : db_payees[id].name_canon = query_canon}
    IN IF hits = {} THEN {<<>>} ELSE {<<id>> : id \in hits}

-----------------------------------------------------------------------------
(* candidates.py: get_candidates *)

\* get_vector_candidates: the embedding is fetched outside the try block.
get_vector_candidates(query_canon, rows) ==
    LET emb == get_embedding(query_canon)
    IN IF emb.raised THEN [raised |-> TRUE, rows |-> <<>>, queried |-> FALSE]
       ELSE [raised |-> FALSE, rows |-> VectorRows(rows), queried |-> TRUE]

NonEmpty(lists) == SelectSeq(lists, LAMBDA l : l # <<>>)

\* The body of get_candidates after query_data = canonicalize(query_name).
\* views: the view queries sent; embeds: get_embedding calls made.
CandidatesFor(db_payees, stg, query_data, env) ==
    LET exact == get_exact_match(env.exact)
        use_vec == stg.embeddings_provider # "none"
        vector == IF use_vec THEN get_vector_candidates(query_data.canon, env.vec)
                  ELSE [raised |-> FALSE, rows |-> <<>>, queried |-> FALSE]
    IN IF query_data.canon = ""
       THEN [raised |-> FALSE, candidates |-> <<>>, views |-> {}, embeds |-> 0]
       ELSE IF exact # <<>>
       THEN [raised |-> FALSE,
             candidates |-> << [payee_id |-> exact[1][1],
                                scores |-> PutScore(<<>>, "exact", ONE),
                                sources |-> <<exact[1][3]>>,
                                max_score |-> ONE, avg_score |-> ONE, num_sources |-> 1] >>,
             views |-> {"exact"}, embeds |-> 0]
       ELSE IF vector.raised
       THEN [raised |-> TRUE, candidates |-> <<>>, views |-> {"exact", "trgm"}, embeds |-> 1]
       ELSE [raised |-> FALSE,
             candidates |-> union_candidates(NonEmpty(
                 << get_trigram_candidates(env.trgm), vector.rows,
                    get_phonetic_candidates(db_payees, query_data.dm_codes, env.dm) >>)),
             views |-> {"exact", "trgm"}
                       \cup (IF vector.queried THEN {"vec"} ELSE {})
                       \cup (IF query_data.dm_codes # {} THEN {"dm"} ELSE {}),
             embeds |-> IF use_vec THEN 1 ELSE 0]

\* get_candidates(db, query_name).  env holds what the storage returns to this
\* call.
get_candidates(db_payees, stg, query_name, env) ==
    CandidatesFor(db_payees, stg, canonicalize(query_name), env)

-----------------------------------------------------------------------------
\* matching.py
\* matching.py annotates rerank_with_llm with Tuple without importing it; the
\* model describes a build in which the module loads.

\* "matched_payee": None
NoPayee == [payee_id |-> 0, name |-> <<>>, bq_supplier_id |-> "None"]

\* The rows the per-candidate SELECT ... FROM payees WHERE payee_id = :id finds;
\* a candidate whose row is missing is skipped.
FetchedCandidates(db_payees, candidates) ==
    SelectSeq(candidates, LAMBDA c : c.payee_id \in DOMAIN db_payees)

\* One turn of the scoring loop: the scored candidate for candidate c.
ScoreOne(name_raw, payee_dict, c, stg, env) ==
    [payee_id |-> payee_dict.payee_id,
     name |-> payee_dict.name_raw,
     bq_supplier_id |-> payee_dict.bq_supplier_id,
     probability |-> predict_proba(compute_features(name_raw, payee_dict, c.scores,
                                                    env.fuzz[payee_dict.name_canon],
                                                    env.same_order),
                                   stg.is_trained, env.model_out[c.payee_id]),
     sources |-> c.sources]

\* The scored candidates left in the order of the shortlist.
LeftUnsorted(scored) == scored

\* scored_candidates.sort(key=lambda x: x["probability"], reverse=True)
SortByProbability(scored) ==
    StableSortDesc(scored, [i \in 1..Len(scored) |-> scored[i].probability])

\* The loop over the candidates whose rows were found.
ScoreFound(name_raw, db_payees, stg, found, env) ==
    [i \in 1..Len(found) |->
        ScoreOne(name_raw, db_payees[found[i].payee_id], found[i], stg, env)]

\* The scoring loop of _match_one_internal followed by the sort on probability.
ScoreCandidates(name_raw, db_payees, stg, candidates, env) ==
    SortByProbability(ScoreFound(name_raw, db_payees, stg,
                                 FetchedCandidates(db_payees, candidates), env))

\* Variant of Threshold whose comparisons are strict.
ThresholdStrict(confidence) ==
    IF confidence > t_high THEN "auto_match"
    ELSE IF confidence > t_low THEN "needs_review"
    ELSE "no_match"

\* The threshold rule on the best probability.
Threshold(confidence) ==
    IF confidence >= t_high THEN "auto_match"
    ELSE IF confidence >= t_low THEN "needs_review"
    ELSE "no_match"

\* The JSON values Python takes for false in `x and y`: false, null, 0 and the
\* empty string.  A JSON value is written as its text; a string value keeps its
\* quotes, as in "'false'".
JsonFalsy == {"false", "null", "0", "''"}

\* bool(value) of a parsed JSON value.
Truthy(value) == value \notin JsonFalsy

\* A reranker that upgrades on agreement alone, whatever the confidence.
RerankOnAgreement(candidates, stg, llm) ==
    IF ~stg.openai_api_key
    THEN [decision |-> "needs_review", confidence |-> candidates[1].probability, called |-> FALSE]
    ELSE IF ~llm.error /\ Truthy(llm.same)
    THEN [decision |-> "auto_match",
          confidence |-> Max(candidates[1].probability, llm.confidence), called |-> TRUE]
    ELSE [decision |-> "needs_review", confidence |-> candidates[1].probability, called |-> TRUE]

\* rerank_with_llm: llm is the reply of the chat completion,
\* [error |-> the call, the JSON parse or a comparison raised, same, confidence],
\* same being the JSON value under "same".
rerank_with_llm(candidates, stg, llm) ==
    IF ~stg.openai_api_key
    THEN [decision |-> "needs_review", confidence |-> candidates[1].probability, called |-> FALSE]
    ELSE IF llm.error
    THEN [decision |-> "needs_review", confidence |-> candidates[1].probability, called |-> TRUE]
    ELSE IF Truthy(llm.same) /\ llm.confidence >= 90000
    THEN [decision |-> "auto_match",
          confidence |-> Max(candidates[1].probability, llm.confidence), called |-> TRUE]
    ELSE [decision |-> "needs_review", confidence |-> candidates[1].probability, called |-> TRUE]

\* add_to_review_queue: INSERT ... status 'open' and commit; an exception is
\* logged and swallowed.  The value is the rows the call adds to review_queue.
add_to_review_queue(name_raw, name_canon, candidates, insert_fails) ==
    IF insert_fails THEN <<>>
    ELSE << [q_name_raw |-> name_raw, q_name_canon |-> name_canon,
             candidates |-> [i \in 1..Len(candidates) |-> candidates[i].payee_id],
             status |-> "open", reviewed_at |-> 0] >>

\* What a call leaves behind besides its return value.
NoTrace == [views |-> {}, embeds |-> 0, fetches |-> 0, llm_called |-> FALSE, p |-> 0,
            scored |-> 0, writes |-> {}]

Returned(decision, confidence, matched_payee, candidates, reason, inserted, trace) ==
    [status |-> "returned", decision |-> decision, confidence |-> confidence,
     matched_payee |-> matched_payee, candidates |-> candidates, reason |-> reason,
     inserted |-> inserted, trace |-> trace]

Raised(trace) ==
    [status |-> "raised", decision |-> "none", confidence |-> 0,
     matched_payee |-> NoPayee, candidates |-> <<>>, reason |-> "none",
     inserted |-> <<>>, trace |-> trace]

\* Variant of EmptyNameResult that goes on to the review queue.
EmptyNameEnqueued ==
    Returned("no_match", 0, NoPayee, <<>>, "Empty or invalid name",
             add_to_review_queue(<<>>, "", <<>>, FALSE), NoTrace)

\* The early return of _match_one_internal for an empty canonical form.
EmptyNameResult == Returned("no_match", 0, NoPayee, <<>>, "Empty or invalid name", <<>>, NoTrace)

\* A response that sends every result without a matched payee to review.
BuildResultEnqueueUnmatched(name_raw, canon, env, seen, scored_candidates, rr) ==
    LET best == scored_candidates[1]
        inserted == IF rr.decision # "auto_match"
                    THEN add_to_review_queue(name_raw, canon, Take(scored_candidates, 10),
                                             env.insert_fail)
                    ELSE <<>>
        trace == [seen EXCEPT !.llm_called = rr.called, !.p = best.probability,
                              !.scored = Len(scored_candidates),
                              !.writes = IF rr.decision # "auto_match" /\ ~env.insert_fail
                                         THEN {"review_queue"} ELSE {}]
    IN IF rr.decision = "auto_match"
       THEN Returned("auto_match", rr.confidence,
                     [payee_id |-> best.payee_id, name |-> best.name,
                      bq_supplier_id |-> best.bq_supplier_id],
                     Take(scored_candidates, 5), "High confidence match", inserted, trace)
       ELSE Returned(rr.decision, rr.confidence, NoPayee,
                     Take(scored_candidates, 5), "Borderline match", inserted, trace)

\* The response built from the final decision rr of _match_one_internal.
BuildResult(name_raw, canon, env, seen, scored_candidates, rr) ==
    LET best == scored_candidates[1]
        inserted == IF rr.decision = "needs_review"
                    THEN add_to_review_queue(name_raw, canon, Take(scored_candidates, 10),
                                             env.insert_fail)
                    ELSE <<>>
        trace == [seen EXCEPT !.llm_called = rr.called, !.p = best.probability,
                              !.scored = Len(scored_candidates),
                              !.writes = IF rr.decision = "needs_review" /\ ~env.insert_fail
                                         THEN {"review_queue"} ELSE {}]
    IN IF rr.decision = "auto_match"
       THEN Returned("auto_match", rr.confidence,
                     [payee_id |-> best.payee_id, name |-> best.name,
                      bq_supplier_id |-> best.bq_supplier_id],
                     Take(scored_candidates, 5), "High confidence match", inserted, trace)
       ELSE IF rr.decision = "needs_review"
       THEN Returned("needs_review", rr.confidence, NoPayee,
                     Take(scored_candidates, 5), "Borderline match", inserted, trace)
       ELSE Returned("no_match", rr.confidence, NoPayee,
                     Take(scored_candidates, 5), "Low confidence", inserted, trace)

\* A decision that consults the reranker whenever one is configured.
DecideRerankAlways(scored_candidates, stg, llm) ==
    IF stg.rerank_provider = "openai"
    THEN rerank_with_llm(Take(scored_candidates, 5), stg, llm)
    ELSE [decision |-> Threshold(scored_candidates[1].probability),
          confidence |-> scored_candidates[1].probability, called |-> FALSE]

\* The threshold decision on the best scored candidate and the optional rerank.
Decide(scored_candidates, stg, llm) ==
    IF Threshold(scored_candidates[1].probability) = "needs_review"
       /\ stg.rerank_provider = "openai"
    THEN rerank_with_llm(Take(scored_candidates, 5), stg, llm)
    ELSE [decision |-> Threshold(scored_candidates[1].probability),
          confidence |-> scored_candidates[1].probability, called |-> FALSE]

\* _match_one_internal from the sort of the scored candidates on.
FromScored(name_raw, canon, stg, env, seen, scored_candidates) ==
    IF scored_candidates = <<>>
    THEN Returned("no_match", 0, NoPayee, <<>>, "No viable candidates", <<>>, seen)
    ELSE BuildResult(name_raw, canon, env, seen, scored_candidates,
                     Decide(scored_candidates, stg, env.llm))

\* _match_one_internal from the return of get_candidates (gc) on.
FromCandidates(name_raw, canon, db_payees, stg, env, gc) ==
    IF gc.raised THEN Raised([NoTrace EXCEPT !.views = gc.views, !.embeds = gc.embeds])
    ELSE IF gc.candidates = <<>>
    THEN Returned("no_match", 0, NoPayee, <<>>, "No candidates found", <<>>,
                  [NoTrace EXCEPT !.views = gc.views, !.embeds = gc.embeds])
    ELSE IF \E i \in 1..Len(gc.candidates) : gc.candidates[i].payee_id \in env.fetch_fail
    THEN Raised([NoTrace EXCEPT !.views = gc.views, !.embeds = gc.embeds,
                                !.fetches = Len(gc.candidates)])
    ELSE FromScored(name_raw, canon, stg, env,
                    [NoTrace EXCEPT !.views = gc.views, !.embeds = gc.embeds,
                                    !.fetches = Len(gc.candidates)],
                    ScoreCandidates(name_raw, db_payees, stg, gc.candidates, env))

\* _match_one_internal from canon = canon_data["canon"] on.
FromCanon(name_raw, canon, db_payees, stg, env) ==
    IF canon = "" THEN EmptyNameResult
    ELSE FromCandidates(name_raw, canon, db_payees, stg, env,
                        get_candidates(db_payees, stg, name_raw, env))

\* _match_one_internal(name_raw, db).  env holds what the storage, the model and
\* the reranker answer to this call; inserted is the rows it adds to review_queue.
match_one_internal(name_raw, db_payees, stg, env) ==
    FromCanon(name_raw, canonicalize(name_raw).canon, db_payees, stg, env)

\* match_one(name_raw, db)
match_one(name_raw, db_payees, stg, env) ==
    match_one_internal(name_raw, db_payees, stg, env)

-----
(* The registry, the deployments and the inputs of the model *)

\* The row ingest_payees writes for a payee: the fields of canonicalize(name).
PayeeParams(payee_id, name_raw, canon_data, bq_supplier_id) ==
    [payee_id |-> payee_id, name_raw |-> name_raw,
     name_canon |-> canon_data.canon, canon_chars |-> canon_data.chars,
     name_tokens |-> canon_data.tokens, token_chars |-> canon_data.token_chars,
     dm_codes |-> canon_data.dm_codes, bq_supplier_id |-> bq_supplier_id]

payee_row(payee_id, name_raw, bq_supplier_id) ==
    PayeeParams(payee_id, name_raw, canonicalize(name_raw), bq_supplier_id)

\* The payees of the registry.
SeedPayees ==
    << payee_row(1, <<"A","c","m","e"," ","I","n","c">>, "S1"),
       payee_row(2, <<"Z","e","t","a"," ","C","o","r","p">>, "None"),
       payee_row(3, <<"B","o","l","t"," ","L","t","d">>, "S3") >>

\* The names clients send: empty, blank, filler words only, an exact canonical
\* match, a near match of two payees, and a name no view finds.
Names ==
    { <<>>, <<" ">>, <<"t","h","e"," ","c","o">>,
      <<"a","c","m","e">>, <<"a","c","m","e"," ","z","e","t","a">>, <<"4","2">> }

\* The configurations of settings and of the loaded classifier.
Deployment(embeddings_provider, rerank_provider, openai_api_key, is_trained) ==
    [embeddings_provider |-> embeddings_provider, rerank_provider |-> rerank_provider,
     openai_api_key |-> openai_api_key, is_trained |-> is_trained]

Deployments ==
    { Deployment("none", "none", FALSE, FALSE),
      Deployment("none", "none", FALSE, TRUE),
      Deployment("openai", "none", TRUE, FALSE),
      Deployment("none", "openai", TRUE, TRUE),
      Deployment("none", "openai", FALSE, TRUE) }

\* What a loaded model may answer for a feature vector.
ModelOk(proba) == [error |-> FALSE, proba |-> proba]
ModelOuts == { ModelOk(t_low - 1), ModelOk(t_low), ModelOk(t_high),
               [error |-> TRUE, proba |-> 0] }

\* rapidfuzz values of two different canonical strings: a far and a near pair.
FuzzProfiles ==
    { [token_set_ratio |-> 30000, token_sort_ratio |-> 30000,
       jaro_winkler |-> 30000, levenshtein |-> 30000],
      [token_set_ratio |-> ONE, token_sort_ratio |-> 80000,
       jaro_winkler |-> 90000, levenshtein |-> 60000] }

\* Replies of the chat completion.
LLMReply(same, confidence) == [error |-> FALSE, same |-> same, confidence |-> confidence]
NoLLM == [error |-> TRUE, same |-> "null", confidence |-> 0]
LLMReplies == { NoLLM, LLMReply("true", 89999), LLMReply("true", 90000),
                LLMReply("true", 99000), LLMReply("false", 95000) }

\* Outcomes of one query: it raises, or returns one of the possible row lists.
Failed == [error |-> TRUE, rows |-> <<>>]
Outcomes(results) == {Failed} \cup {[error |-> FALSE, rows |-> r] : r \in results}

\* Rows the match pipeline may leave in review_queue before the model stops
\* issuing requests that enqueue.
MaxQueue == 2

\* No request in flight.
Idle ==
    [status |-> "idle", query |-> <<>>, canon |-> "", decision |-> "none", confidence |-> 0,
     matched_payee |-> NoPayee, candidates |-> <<>>, reason |-> "none", trace |-> NoTrace]

\* The response the client of match_one observes for name_raw.
Response(name_raw, r) ==
    [status |-> r.status, query |-> name_raw, canon |-> canonicalize(name_raw).canon,
     decision |-> r.decision, confidence |-> r.confidence,
     matched_payee |-> r.matched_payee, candidates |-> r.candidates,
     reason |-> r.reason, trace |-> r.trace]



------------------------------------------------------------------------


-----------------------------------------------------------------------------
(* POST /match: one call of match_one against the shared tables *)

\* No batch request in flight.
NoBatch ==
    [phase |-> "none", mode |-> "none", names |-> <<>>, workers |-> 0, chunks |-> <<>>,
     results |-> <<>>]

NoReqs == <<>>

\* No direct call made.
NoCall == [fn |-> "none"]

Init ==
    /\ settings \in Deployments
    /\ payees = SeedPayees
    /\ review_queue = <<>>
    /\ labels = <<>>
    /\ embedding_cache = {}
    /\ result = Idle
    /\ batch = NoBatch
    /\ reqs = NoReqs
    /\ call = NoCall

\* The inputs of a call that the views read.
ViewEnv(exact, trgm, dm) == [exact |-> exact, trgm |-> trgm, vec |-> Failed, dm |-> dm]

\* All the inputs of a call.
CallEnv(views, fetch_fail, model_out, fuzz, same_order, llm, insert_fail) ==
    [exact |-> views.exact, trgm |-> views.trgm, vec |-> views.vec, dm |-> views.dm,
     fetch_fail |-> fetch_fail, model_out |-> model_out, fuzz |-> fuzz,
     same_order |-> same_order, llm |-> llm, insert_fail |-> insert_fail]

\* The functions on all that take any of values on ids and default elsewhere:
\* an input nobody reads does not vary.
Over(ids, all, values, default) ==
    {[id \in all |-> IF id \in ids THEN g[id] ELSE default] : g \in [ids -> values]}

\* The outcomes of the view queries of a call whose query canonicalizes to
\* canon_data.
ViewEnvsFor(canon_data, db_payees) ==
    IF canon_data.canon = "" THEN {ViewEnv(Failed, Failed, Failed)}
    ELSE UNION {
           IF ~exact.error /\ exact.rows # <<>> THEN {ViewEnv(exact, Failed, Failed)}
           ELSE {ViewEnv(exact, trgm, dm) :
                   trgm \in Outcomes(TrigramResults(db_payees, canon_data.chars)),
                   dm \in IF canon_data.dm_codes = {} THEN {Failed}
                          ELSE Outcomes(PhoneticResults(db_payees, canon_data.dm_codes))}
           : exact \in Outcomes(ExactResults(db_payees, canon_data.canon)) }

\* The outcomes of the view queries of match_one(name_raw).
ViewEnvs(name_raw, db_payees) == ViewEnvsFor(canonicalize(name_raw), db_payees)

\* The candidates whose score the heuristic computes: all when no model is
\* loaded, else those for which the model raises.
Heuristic(db_payees, stg, ids, model_out) ==
    {db_payees[id].name_canon : id \in {i \in ids : ~stg.is_trained \/ model_out[i].error}}

\* The outcomes of the scoring loop (row fetches, rapidfuzz, model) for the
\* candidates ids of a query with the given canon and initials.
ScoringEnvsFor(canon, initials, db_payees, stg, views, raised, ids) ==
    LET all == DOMAIN db_payees
        canons == {db_payees[id].name_canon : id \in all}
        far == CHOOSE f \in FuzzProfiles : f.token_set_ratio < ONE
        unread == [id \in all |-> ModelOk(0)]
    IN IF raised \/ ids = {}
       THEN {CallEnv(views, {}, unread, [c \in canons |-> far], TRUE, NoLLM, FALSE)}
       ELSE {CallEnv(views, {id}, unread, [c \in canons |-> far], TRUE, NoLLM, FALSE) : id \in ids}
            \cup
            UNION {{CallEnv(views, {}, model_out, fuzz, same_order, NoLLM, FALSE) :
                      fuzz \in Over(Heuristic(db_payees, stg, ids, model_out) \ {canon},
                                    canons, FuzzProfiles, far),
                      same_order \in
                        IF /\ Cardinality(Range(initials)) > 1
                           /\ \E id \in ids :
                                /\ ~stg.is_trained \/ model_out[id].error
                                /\ extract_initials(db_payees[id].token_chars) = initials
                        THEN BOOLEAN ELSE {TRUE}}
                   : model_out \in IF stg.is_trained THEN Over(ids, all, ModelOuts, ModelOk(0))
                                   ELSE {unread}}

CandidateIds(gc) == {gc.candidates[i].payee_id : i \in 1..Len(gc.candidates)}

ScoringEnvsOf(canon_data, db_payees, stg, views, gc) ==
    ScoringEnvsFor(canon_data.canon, extract_initials(canon_data.token_chars),
                   db_payees, stg, views, gc.raised, CandidateIds(gc))

ScoringEnvs(name_raw, db_payees, stg, views) ==
    ScoringEnvsOf(canonicalize(name_raw), db_payees, stg, views,
                  get_candidates(db_payees, stg, name_raw, views))

\* The outcomes of the rerank call and of the review-queue insert, which happen
\* only in a call that reaches them; r0 is the call's result when both succeed
\* trivially.
Closings(name_raw, db_payees, stg, env, r0) ==
    {IF llm = NoLLM /\ ~insert_fail THEN r0
     ELSE match_one(name_raw, db_payees, stg,
                    CallEnv(env, env.fetch_fail, env.model_out, env.fuzz,
                            env.same_order, llm, insert_fail)) :
       llm \in IF r0.status = "returned" /\ r0.trace.llm_called THEN LLMReplies ELSE {NoLLM},
       insert_fail \in IF r0.status = "returned" /\ r0.trace.scored > 0
                          /\ Threshold(r0.trace.p) = "needs_review"
                       THEN BOOLEAN ELSE {FALSE}}

\* match_one(name_raw) in every environment it can meet: every outcome of every
\* statement and call it makes, and one fixed value for those it does not make.
MatchResults(name_raw, db_payees, stg) ==
    UNION {UNION {Closings(name_raw, db_payees, stg, env,
                           match_one(name_raw, db_payees, stg, env))
                  : env \in ScoringEnvs(name_raw, db_payees, stg, views)}
           : views \in ViewEnvs(name_raw, db_payees)}

\* MatchResults over the seed registry, tabulated once as <<settings, name, r>>.
SeedResults ==
    UNION {UNION {{<<stg, n, r>> : r \in MatchResults(n, SeedPayees, stg)} : n \in Names}
           : stg \in Deployments}

\* The results match_one(name_raw) can give against the current registry.
Matches(name_raw) ==
    IF payees = SeedPayees
    THEN {t[3] : t \in {u \in SeedResults : u[1] = settings /\ u[2] = name_raw}}
    ELSE MatchResults(name_raw, payees, settings)

\* match_single: match_one(request.name); the handler turns an exception into a
\* 500 response.
MatchOne ==
    /\ result.status = "idle"
    /\ \E name_raw \in Names :
         \E r \in Matches(name_raw) :
            /\ Len(review_queue \o r.inserted) <= MaxQueue
            /\ review_queue' = review_queue \o r.inserted
            /\ result' = Response(name_raw, r)
    /\ UNCHANGED <<settings, payees, labels, embedding_cache, batch, reqs, call>>

\* The client has read the response.
Deliver ==
    /\ result.status # "idle"
    /\ result' = Idle
    /\ UNCHANGED <<settings, payees, review_queue, labels, embedding_cache, batch, reqs, call>>

Next == MatchOne \/ Deliver

Spec == Init /\ [][Next]_vars



-----------------------------------------------------------------------------------------------------------------------------------------------------
(* POST /match/batch: match_batch over worker threads, and the NDJSON stream *)

\* The names of a batch request are drawn from BatchNames, at most MaxBatch of
\* them; batch_chunk_size and batch_workers range up to the bounds below.
BatchNames == { <<"a","c","m","e">>, <<"4","2">> }
MaxBatch == 3
MaxChunkSize == 2
MaxWorkers == 2

BatchInputs == UNION {[1..n -> BatchNames] : n \in 0..MaxBatch}

RECURSIVE Chunks(_, _)
\* for i in range(0, len(items), chunk_size): chunks.append(items[i:i + chunk_size])
Chunks(items, chunk_size) ==
    IF items = <<>> THEN <<>>
    ELSE << Take(items, chunk_size) >>
         \o Chunks(SubSeq(items, Min(Len(items), chunk_size) + 1, Len(items)), chunk_size)

\* A chunk submitted to the executor: the future and the progress of
\* process_chunk over its names.
Submitted(items) == [items |-> items, pos |-> 1, results |-> <<>>, state |-> "queued"]

\* {"query": name, **result}: the fields of an entry that the properties read.
BatchEntry(name, r) ==
    [query |-> name, decision |-> r.decision, confidence |-> r.confidence,
     matched_payee |-> r.matched_payee]

\* match_batch_endpoint with stream = false: match_batch splits the names and
\* submits every chunk to the thread pool.
StartBatch ==
    /\ batch.phase = "none"
    /\ \E names \in BatchInputs, chunk_size \in 1..MaxChunkSize, workers \in 1..MaxWorkers :
          batch' = [phase |-> "running", mode |-> "batch", names |-> names,
                    workers |-> workers,
                    chunks |-> [k \in 1..Len(Chunks(names, chunk_size)) |->
                                  Submitted(Chunks(names, chunk_size)[k])],
                    results |-> <<>>]
    /\ UNCHANGED <<settings, payees, review_queue, labels, embedding_cache, result, reqs, call>>

\* match_batch_endpoint with stream = true: the generator runs over all names.
StartStream ==
    /\ batch.phase = "none"
    /\ \E names \in BatchInputs :
          batch' = [phase |-> IF names = <<>> THEN "done" ELSE "running",
                    mode |-> "stream", names |-> names, workers |-> 0,
                    chunks |-> << [Submitted(names) EXCEPT !.state = "running"] >>,
                    results |-> <<>>]
    /\ UNCHANGED <<settings, payees, review_queue, labels, embedding_cache, result, reqs, call>>

\* One turn of the generator: match_one(name) and the line it yields.  An
\* exception ends the stream where it is.
StreamStep ==
    /\ batch.phase = "running" /\ batch.mode = "stream"
    /\ LET c == batch.chunks[1]
           name == c.items[c.pos]
       IN \E r \in Matches(name) :
            /\ Len(review_queue \o r.inserted) <= MaxQueue
            /\ review_queue' = review_queue \o r.inserted
            /\ batch' =
                 IF r.status = "raised"
                 THEN [batch EXCEPT !.phase = "done", !.chunks[1].state = "failed"]
                 ELSE [batch EXCEPT
                         !.results = Append(@, BatchEntry(name, r)),
                         !.chunks[1].pos = @ + 1,
                         !.chunks[1].state = IF c.pos = Len(c.items) THEN "done" ELSE @,
                         !.phase = IF c.pos = Len(c.items) THEN "done" ELSE @]
    /\ UNCHANGED <<settings, payees, labels, embedding_cache, result, reqs, call>>

Running == {k \in 1..Len(batch.chunks) : batch.chunks[k].state = "running"}

\* A free worker thread of the pool takes the oldest queued chunk.
WorkerTake ==
    /\ batch.phase = "running" /\ batch.mode = "batch"
    /\ Cardinality(Running) < batch.workers
    /\ \E k \in 1..Len(batch.chunks) :
          /\ batch.chunks[k].state = "queued"
          /\ \A j \in 1..(k - 1) : batch.chunks[j].state # "queued"
          /\ batch' = [batch EXCEPT !.chunks[k].state = "running"]
    /\ UNCHANGED <<settings, payees, review_queue, labels, embedding_cache, result, reqs, call>>

\* One turn of the loop of process_chunk in a worker thread.  An exception of
\* match_one ends the chunk: batch_process logs it and takes no result from the
\* chunk.  A chunk that completes has its results appended by the as_completed
\* loop.
WorkerStep ==
    /\ batch.phase = "running" /\ batch.mode = "batch"
    /\ \E k \in Running :
         LET c == batch.chunks[k]
             name == c.items[c.pos]
         IN \E r \in Matches(name) :
              /\ Len(review_queue \o r.inserted) <= MaxQueue
              /\ review_queue' = review_queue \o r.inserted
              /\ batch' =
                   IF r.status = "raised"
                   THEN [batch EXCEPT !.chunks[k].state = "failed"]
                   ELSE IF c.pos = Len(c.items)
                   THEN [batch EXCEPT
                           !.chunks[k].results = Append(@, BatchEntry(name, r)),
                           !.chunks[k].pos = @ + 1,
                           !.chunks[k].state = "done",
                           !.results = @ \o Append(c.results, BatchEntry(name, r))]
                   ELSE [batch EXCEPT
                           !.chunks[k].results = Append(@, BatchEntry(name, r)),
                           !.chunks[k].pos = @ + 1]
    /\ UNCHANGED <<settings, payees, labels, embedding_cache, result, reqs, call>>

\* Every future has completed: batch_process returns results.
BatchReturn ==
    /\ batch.phase = "running" /\ batch.mode = "batch"
    /\ \A k \in 1..Len(batch.chunks) : batch.chunks[k].state \in {"done", "failed"}
    /\ batch' = [batch EXCEPT !.phase = "done"]
    /\ UNCHANGED <<settings, payees, review_queue, labels, embedding_cache, result, reqs, call>>

NextBatch ==
    StartBatch \/ StartStream \/ StreamStep \/ WorkerTake \/ WorkerStep \/ BatchReturn

SpecBatch == Init /\ [][NextBatch]_vars

-----------------------------------------------------------------------------
(* POST /review/{rq_id}/approve and /reject, served by processes that share the
   database (READ COMMITTED).  Each request is one transaction: the SELECT of
   the open item, the INSERT of the label and the UPDATE of the status, the
   COMMIT.  An UPDATE waits while another transaction holds the row. *)

\* Requests the model issues before it stops.
MaxReqs == 2

\* The review_queue contents match_one can have left: one open row.
ReviewSeeds == {t[3].inserted : t \in SeedResults} \ {<<>>}

InitReview ==
    /\ settings \in Deployments
    /\ payees = SeedPayees
    /\ review_queue \in ReviewSeeds
    /\ labels = <<>>
    /\ embedding_cache = {}
    /\ result = Idle
    /\ batch = NoBatch
    /\ reqs = NoReqs
    /\ call = NoCall

\* A request as received: decision is the ReviewDecision body (payee_id 0 for
\* none); notes identifies the request.
Request(kind, rq_id, approved, payee_id, notes) ==
    [kind |-> kind, rq_id |-> rq_id,
     decision |-> [approved |-> approved, payee_id |-> payee_id, notes |-> notes],
     pc |-> "select", review |-> <<>>, response |-> "none"]

\* The payee_id of a request body: none (0) or a payee.
BodyPayeeIds == {0, 1}

\* A reviewer sends approve or reject for an item id, which may not exist.  The
\* reject endpoint does not read approved.
Arrive ==
    /\ Len(reqs) < MaxReqs
    /\ \E kind \in {"approve", "reject"}, rq_id \in 1..(Len(review_queue) + 1),
          approved \in BOOLEAN, payee_id \in BodyPayeeIds :
          /\ kind = "reject" => ~approved
          /\ reqs' = Append(reqs, Request(kind, rq_id, approved, payee_id, Len(reqs) + 1))
    /\ UNCHANGED <<settings, payees, review_queue, labels, embedding_cache, result, batch, call>>

\* SELECT q_name_raw, q_name_canon, candidates FROM review_queue
\* WHERE rq_id = :id AND status = 'open'; no row: 404.
Select(i) ==
    /\ reqs[i].pc = "select"
    /\ reqs' = IF /\ reqs[i].rq_id \in 1..Len(review_queue)
                  /\ review_queue[reqs[i].rq_id].status = "open"
               THEN [reqs EXCEPT ![i].pc = "write",
                                 ![i].review = << review_queue[reqs[i].rq_id].q_name_raw,
                                                  review_queue[reqs[i].rq_id].q_name_canon >>]
               ELSE [reqs EXCEPT ![i].pc = "done", ![i].response = "404"]
    /\ UNCHANGED <<settings, payees, review_queue, labels, embedding_cache, result, batch, call>>

\* Variant of approve_labels that writes a label for every approve call.
approve_labels_always(review, decision) ==
    << [q_name_raw |-> review[1], q_name_canon |-> review[2],
        c_payee_id |-> decision.payee_id, y |-> TRUE, meta |-> decision.notes] >>

\* approve_match: the label rows the call inserts.
approve_labels(review, decision) ==
    IF decision.approved /\ decision.payee_id # 0
    THEN << [q_name_raw |-> review[1], q_name_canon |-> review[2],
             c_payee_id |-> decision.payee_id, y |-> TRUE, meta |-> decision.notes] >>
    ELSE <<>>

\* reject_match: the label rows the call inserts.
reject_labels(review, decision) ==
    IF decision.payee_id # 0
    THEN << [q_name_raw |-> review[1], q_name_canon |-> review[2],
             c_payee_id |-> decision.payee_id, y |-> FALSE, meta |-> decision.notes] >>
    ELSE <<>>

\* The requests whose transaction has updated the row rq_id and not committed.
Holders(rq_id) == {j \in 1..Len(reqs) : reqs[j].pc = "commit" /\ reqs[j].rq_id = rq_id}

\* The INSERT INTO labels, if any, and UPDATE review_queue SET status = ...,
\* reviewed_at = NOW() WHERE rq_id = :id, which takes the row lock.
Write(i) ==
    /\ reqs[i].pc = "write"
    /\ Holders(reqs[i].rq_id) = {}
    /\ reqs' = [reqs EXCEPT ![i].pc = "commit"]
    /\ UNCHANGED <<settings, payees, review_queue, labels, embedding_cache, result, batch, call>>

\* db.commit(): the label and the new status become visible together.
Commit(i) ==
    /\ reqs[i].pc = "commit"
    /\ labels' = labels \o (IF reqs[i].kind = "approve"
                           THEN approve_labels(reqs[i].review, reqs[i].decision)
                           ELSE reject_labels(reqs[i].review, reqs[i].decision))
    /\ review_queue' = [review_queue EXCEPT
                          ![reqs[i].rq_id].status =
                              IF reqs[i].kind = "approve" THEN "approved" ELSE "rejected",
                          ![reqs[i].rq_id].reviewed_at = i]
    /\ reqs' = [reqs EXCEPT ![i].pc = "done", ![i].response = "ok"]
    /\ UNCHANGED <<settings, payees, embedding_cache, result, batch, call>>

\* A statement or the commit fails: the session closes without commit and the
\* request is answered with an error.
Abort(i) ==
    /\ reqs[i].pc \in {"write", "commit"}
    /\ reqs' = [reqs EXCEPT ![i].pc = "done", ![i].response = "error"]
    /\ UNCHANGED <<settings, payees, review_queue, labels, embedding_cache, result, batch, call>>

NextReview ==
    \/ Arrive
    \/ \E i \in 1..Len(reqs) : Select(i)
    \/ \E i \in 1..Len(reqs) : Write(i)
    \/ \E i \in 1..Len(reqs) : Commit(i)
    \/ \E i \in 1..Len(reqs) : Abort(i)

SpecReview == InitReview /\ [][NextReview]_vars

-----------------------------------------------------------------------------
(* POST /payees/ingest.  Each request is one session: per payee a SELECT by
   external id, then an UPDATE or an INSERT, and one COMMIT at the end.  The
   requests run against one PostgreSQL database (READ COMMITTED): a statement
   sees the committed rows and the session's own writes; after a failed
   statement every later statement of the session fails and its COMMIT
   persists nothing.  The model numbers inserted rows when they are committed. *)

\* Ingest requests the model issues, and payees per request.
MaxIngests == 2
MaxRows == 2

\* PayeeInput: payee_id is the external id ("None" when absent).
PayeeInput(payee_id, name) == [payee_id |-> payee_id, name |-> name]

\* The payees clients send: a new name for the registered external id S1, an
\* unseen external id whose name is made of filler words only, and a payee
\* without external id.
IngestInputs ==
    { PayeeInput("S1", <<"A","c","m","e">>),
      PayeeInput("S9", <<"T","h","e"," ","C","o">>),
      PayeeInput("None", <<"N","o","v","a">>) }

\* existing = None
NoRow == [kind |-> "none", ref |-> 0]

IngestRequest(rows) ==
    [kind |-> "ingest", rows |-> rows, k |-> 1, pc |-> "lookup", existing |-> NoRow,
     ins |-> <<>>, upd |-> <<>>, aborted |-> FALSE, log |-> <<>>, known |-> <<>>,
     response |-> "none"]

\* A client posts a list of payees.
IngestArrive(max) ==
    /\ Len(reqs) < max
    /\ \E rows \in UNION {[1..n -> IngestInputs] : n \in 1..MaxRows} :
          reqs' = Append(reqs, IngestRequest(rows))
    /\ UNCHANGED <<settings, payees, review_queue, labels, embedding_cache, result, batch, call>>

\* The request has dealt with its current payee: counted as inserted, updated
\* or error.
Advance(r, outcome) ==
    [r EXCEPT !.log = Append(@, outcome), !.k = @ + 1, !.existing = NoRow,
              !.pc = IF r.k = Len(r.rows) THEN "commit" ELSE "lookup"]

\* The rows SELECT payee_id FROM payees WHERE bq_supplier_id = :external_id
\* finds for session r: committed rows and the session's own inserts.
VisibleRows(r, db_payees, external_id) ==
    {[kind |-> "row", ref |-> id] : id \in {j \in DOMAIN db_payees :
                                              db_payees[j].bq_supplier_id = external_id}}
    \cup {[kind |-> "own", ref |-> j] : j \in {n \in 1..Len(r.ins) :
                                                 r.ins[n].payee_id = external_id}}

\* Whether the registry, as session r sees it, already has the external id.
Known(r, db_payees, external_id) ==
    external_id # "None" /\ VisibleRows(r, db_payees, external_id) # {}

\* canonicalize, get_embedding when a provider is configured, and the SELECT by
\* external id.  known records, per payee of the request, whether its external
\* id was in the registry when the request came to it.
IngestLookup(i) ==
    /\ reqs[i].kind = "ingest" /\ reqs[i].pc = "lookup"
    /\ LET payee == reqs[i].rows[reqs[i].k]
           r == [reqs[i] EXCEPT !.known = Append(@, Known(reqs[i], payees, payee.payee_id))]
       IN IF /\ settings.embeddings_provider # "none"
             /\ get_embedding(canonicalize(payee.name).canon).raised
          THEN reqs' = [reqs EXCEPT ![i] = Advance(r, "error")]
          ELSE IF payee.payee_id = "None"
          THEN reqs' = [reqs EXCEPT ![i] = [r EXCEPT !.pc = "write"]]
          ELSE IF r.aborted
          THEN reqs' = [reqs EXCEPT ![i] = Advance(r, "error")]
          ELSE IF VisibleRows(r, payees, payee.payee_id) = {}
          THEN reqs' = [reqs EXCEPT ![i] = [r EXCEPT !.pc = "write"]]
          ELSE \E e \in VisibleRows(r, payees, payee.payee_id) :
                  reqs' = [reqs EXCEPT ![i] = [r EXCEPT !.pc = "write", !.existing = e]]
    /\ UNCHANGED <<settings, payees, review_queue, labels, embedding_cache, result, batch, call>>

\* Variant of UniqueViolation for a table without the constraint.
NoUniqueIndex(db_payees, external_id) == FALSE

\* The unique index on payees.bq_supplier_id of the schema: an INSERT of a
\* non-null external id that a committed row already has fails.
UniqueViolation(db_payees, external_id) ==
    /\ external_id # "None"
    /\ \E id \in DOMAIN db_payees : db_payees[id].bq_supplier_id = external_id

\* The sessions whose uncommitted writes the next statement of request i has to
\* wait for: an UPDATE waits for the row lock of another session's UPDATE, an
\* INSERT for another session's uncommitted INSERT of the same external id.
Blockers(i) ==
    LET r == reqs[i]
        payee == r.rows[r.k]
    IN {j \in 1..Len(reqs) :
          /\ j # i /\ reqs[j].pc # "done"
          /\ IF r.existing.kind = "row"
             THEN \E n \in 1..Len(reqs[j].upd) : reqs[j].upd[n].payee_id = r.existing.ref
             ELSE /\ r.existing.kind = "none" /\ payee.payee_id # "None"
                  /\ \E n \in 1..Len(reqs[j].ins) : reqs[j].ins[n].payee_id = payee.payee_id}

\* The UPDATE of the row found, or the INSERT of a new row.
IngestWrite(i) ==
    /\ reqs[i].kind = "ingest" /\ reqs[i].pc = "write"
    /\ reqs[i].aborted \/ Blockers(i) = {}
    /\ LET r == reqs[i]
           payee == r.rows[r.k]
       IN reqs' = [reqs EXCEPT ![i] =
            IF r.aborted THEN Advance(r, "error")
            ELSE IF r.existing.kind = "row"
            THEN Advance([r EXCEPT !.upd = Append(@, [payee_id |-> r.existing.ref,
                                                      name |-> payee.name])], "updated")
            ELSE IF r.existing.kind = "own"
            THEN Advance([r EXCEPT !.ins[r.existing.ref].name = payee.name], "updated")
            ELSE IF UniqueViolation(payees, payee.payee_id)
            THEN Advance([r EXCEPT !.aborted = TRUE], "error")
            ELSE Advance([r EXCEPT !.ins = Append(@, payee)], "inserted")]
    /\ UNCHANGED <<settings, payees, review_queue, labels, embedding_cache, result, batch, call>>

\* Two sessions wait for each other: the database ends the wait of one of them
\* with a deadlock error.
IngestDeadlock(i) ==
    /\ reqs[i].kind = "ingest" /\ reqs[i].pc = "write" /\ ~reqs[i].aborted
    /\ \E j \in Blockers(i) : reqs[j].pc = "write" /\ ~reqs[j].aborted /\ i \in Blockers(j)
    /\ reqs' = [reqs EXCEPT ![i] = Advance([reqs[i] EXCEPT !.aborted = TRUE], "error")]
    /\ UNCHANGED <<settings, payees, review_queue, labels, embedding_cache, result, batch, call>>

RECURSIVE ApplyUpdates(_, _)
\* The committed UPDATEs, in statement order.
ApplyUpdates(db_payees, upd) ==
    IF upd = <<>> THEN db_payees
    ELSE ApplyUpdates([db_payees EXCEPT ![Head(upd).payee_id] =
                          payee_row(Head(upd).payee_id, Head(upd).name,
                                    db_payees[Head(upd).payee_id].bq_supplier_id)],
                      Tail(upd))

\* The committed INSERTs: new rows with the next payee_ids.
ApplyInserts(db_payees, ins) ==
    db_payees \o [n \in 1..Len(ins) |->
                    payee_row(Len(db_payees) + n, ins[n].name, ins[n].payee_id)]

\* How many payees of the request were counted under outcome.
Counted(r, outcome) == Cardinality({n \in 1..Len(r.log) : r.log[n] = outcome})

\* db.commit() and the response {inserted, updated, errors}.
IngestCommit(i) ==
    /\ reqs[i].kind = "ingest" /\ reqs[i].pc = "commit"
    /\ payees' = IF reqs[i].aborted THEN payees
                 ELSE ApplyInserts(ApplyUpdates(payees, reqs[i].upd), reqs[i].ins)
    /\ reqs' = [reqs EXCEPT ![i].pc = "done",
                            ![i].response = [inserted |-> Counted(reqs[i], "inserted"),
                                             updated |-> Counted(reqs[i], "updated"),
                                             errors |-> Counted(reqs[i], "error")]]
    /\ UNCHANGED <<settings, review_queue, labels, embedding_cache, result, batch, call>>

NextIngest ==
    \/ IngestArrive(MaxIngests)
    \/ \E i \in 1..Len(reqs) : IngestLookup(i)
    \/ \E i \in 1..Len(reqs) : IngestWrite(i)
    \/ \E i \in 1..Len(reqs) : IngestDeadlock(i)
    \/ \E i \in 1..Len(reqs) : IngestCommit(i)

SpecIngest == Init /\ [][NextIngest]_vars

\* The raw names an ingest request has been answered for as inserted or
\* updated, and has committed.
Accepted ==
    UNION {{reqs[i].rows[n].name : n \in {m \in 1..Len(reqs[i].rows) : reqs[i].log[m] # "error"}}
           : i \in {j \in 1..Len(reqs) : /\ reqs[j].kind = "ingest" /\ reqs[j].pc = "done"
                                         /\ ~reqs[j].aborted}}

\* POST /match on a raw name that an ingest request has committed.
MatchIngested ==
    /\ result.status = "idle"
    /\ \A i \in 1..Len(reqs) : reqs[i].pc = "done"
    /\ \E name_raw \in Accepted :
         \E r \in Matches(name_raw) :
            /\ Len(review_queue \o r.inserted) <= MaxQueue
            /\ review_queue' = review_queue \o r.inserted
            /\ result' = Response(name_raw, r)
    /\ UNCHANGED <<settings, payees, labels, embedding_cache, batch, reqs, call>>

\* One ingest request, then matches on the names it ingested.
NextRoundTrip ==
    \/ IngestArrive(1)
    \/ \E i \in 1..Len(reqs) : IngestLookup(i)
    \/ \E i \in 1..Len(reqs) : IngestWrite(i)
    \/ \E i \in 1..Len(reqs) : IngestCommit(i)
    \/ MatchIngested
    \/ Deliver

SpecRoundTrip == Init /\ [][NextRoundTrip]_vars

-----------------------------------------------------------------------------
(* get_candidates and _match_one_internal from the view lists on: the lists
   are merged by union_candidates in the order they are appended to
   candidates_lists, then scored and decided. *)

\* Rows per view list in the direct calls.
MaxListLen == 2

\* Scores the views report in the direct calls.
ViewScores == {50000, 80000}

\* The lists a view of the given type may return: at most MaxListLen rows of
\* distinct payees, best score first.
ViewLists(type, len) ==
    {l \in UNION {[1..n -> {<<id, sc, <<type, sc>> >> : id \in DOMAIN SeedPayees, sc \in ViewScores}]
                  : n \in 0..len} :
        \A i, j \in 1..Len(l) : i < j => (l[i][1] # l[j][1] /\ l[i][2] >= l[j][2])}

\* What the scoring loop meets in the direct calls: every row is found, the
\* loaded model answers model for every candidate, rapidfuzz answers fuzz.
DirectEnv(db_payees, model, fuzz) ==
    CallEnv(ViewEnv(Failed, Failed, Failed), {},
            [id \in DOMAIN db_payees |-> model],
            [c \in {db_payees[id].name_canon : id \in DOMAIN db_payees} |-> fuzz],
            TRUE, NoLLM, FALSE)

\* get_candidates from candidates_lists on, and the rest of _match_one_internal.
match_from_lists(name_raw, db_payees, stg, env, candidates_lists) ==
    FromCandidates(name_raw, canonicalize(name_raw).canon, db_payees, stg, env,
                   [raised |-> FALSE,
                    candidates |-> union_candidates(NonEmpty(candidates_lists)),
                    views |-> {"exact", "trgm", "dm"}, embeds |-> 0])

\* The query of the direct calls.
MergeQuery == <<"a","c","m","e"," ","z","e","t","a">>

\* One match whose trigram and phonetic lists are merged in the order of the
\* code (trigram, phonetic) and in the other order.
MergeViews ==
    /\ call.fn = "none"
    /\ \E trgm \in ViewLists("trgm", MaxListLen), dm \in ViewLists("dm", MaxListLen - 1),
          fuzz \in FuzzProfiles :
          call' = [fn |-> "union_candidates", lists |-> <<trgm, dm>>,
                   result |-> match_from_lists(MergeQuery, payees, settings,
                                  DirectEnv(payees, ModelOk(t_high), fuzz), <<trgm, dm>>),
                   swapped |-> match_from_lists(MergeQuery, payees, settings,
                                  DirectEnv(payees, ModelOk(t_high), fuzz), <<dm, trgm>>)]
    /\ UNCHANGED <<settings, payees, review_queue, labels, embedding_cache, result, batch, reqs>>

\* The direct call has returned.
ReturnCall ==
    /\ call.fn # "none"
    /\ call' = NoCall
    /\ UNCHANGED <<settings, payees, review_queue, labels, embedding_cache, result, batch, reqs>>

NextMerge == MergeViews \/ ReturnCall

SpecMerge == Init /\ [][NextMerge]_vars

-----------------------------------------------------------------------------
(* Direct calls of get_embedding *)

\* The number of get_embedding calls followed.
MaxEmbedCalls == 3

\* The canonical texts embedded: the canons of the names clients send, the
\* empty one included.
EmbedTexts == {canonicalize(n).canon : n \in Names}

\* One call get_embedding(text), from any thread: the call touches nothing
\* shared before it returns the zero vector or raises, so calls in flight at the
\* same time behave as calls one after the other.  The outcomes are kept in the
\* order of the calls.
EmbedCall ==
    /\ call.fn \in {"none", "get_embedding"}
    /\ \E text \in EmbedTexts :
          LET log == IF call.fn = "none" THEN <<>> ELSE call.log
          IN /\ Len(log) < MaxEmbedCalls
             /\ call' = [fn |-> "get_embedding",
                         log |-> Append(log, [text |-> text, out |-> get_embedding(text)])]
    /\ UNCHANGED <<settings, payees, review_queue, labels, embedding_cache, result, batch, reqs>>

NextEmbed == EmbedCall \/ ReturnCall

SpecEmbed == Init /\ [][NextEmbed]_vars

-----------------------------------------------------------------------------
(* Direct calls of canonicalize *)

\* The number of whitespace-separated tokens of a raw name.
MaxNameTokens == 2

\* The raw tokens names are made of: plain words, a suffix, a filler word, a
\* number, dotted initials, an abbreviation, and stems followed by digits.
RawTokens ==
    { <<"A","c","m","e">>, <<"z","e","t","a">>, <<"c","o">>, <<"T","h","e">>,
      <<"4","2">>, <<"J",".","P",".">>, <<"m","g","m","t">>, <<"I","n","c","2">> }

\* The raw names of up to MaxNameTokens tokens.
TokenLists == UNION {[1..n -> RawTokens] : n \in 1..MaxNameTokens}

\* The orders in which n tokens can be written.
TokenOrders(n) == {f \in [1..n -> 1..n] : \A i, j \in 1..n : f[i] = f[j] => i = j}

\* What the calls return: canonicalize(name), canonicalize of that canon, and
\* canonicalize of the same tokens in another order.
CanonCalls(name, other, out) ==
    [fn |-> "canonicalize", name |-> name, other |-> other, out |-> out,
     again |-> canonicalize(out.chars), out_other |-> canonicalize(other)]

Canonicalize ==
    /\ call.fn = "none"
    /\ \E toks \in TokenLists : \E order \in TokenOrders(Len(toks)) :
          call' = CanonCalls(Flatten(toks), Flatten([i \in 1..Len(toks) |-> toks[order[i]]]),
                             canonicalize(Flatten(toks)))
    /\ UNCHANGED <<settings, payees, review_queue, labels, embedding_cache, result, batch, reqs>>

NextCanon == Canonicalize \/ ReturnCall

SpecCanon == Init /\ [][NextCanon]_vars

-----------------------------------------------------------------------------
(* Direct calls of PayeeClassifier.predict_proba *)

\* The feature vectors scored, as far as the scorers read them: every feature
\* at its lowest and at its highest value, len_ratio below and above 0.5.
FeatureVectors ==
    [token_set_ratio : {0, ONE}, token_sort_ratio : {0, ONE}, jaro_winkler : {0, ONE},
     levenshtein : {0, ONE}, trgm_score : {0, ONE}, vec_score : {0, ONE},
     dm_jaccard : {0, ONE}, token_jaccard : {0, ONE}, initials_match : {0, ONE},
     is_abbreviation : {0, ONE}, has_common_variation : {0, ONE},
     len_ratio : {40000, ONE}, exact_match : {0, ONE}]

\* One call classifier.predict_proba(features), as matching.py:109 makes it for
\* every candidate; a loaded model answers or raises.
PredictProba ==
    /\ call.fn = "none"
    /\ \E f \in FeatureVectors :
       \E model_out \in (IF settings.is_trained THEN ModelOuts ELSE {[error |-> TRUE, proba |-> 0]}) :
          call' = [fn |-> "predict_proba", features |-> f, model_out |-> model_out,
                   probability |-> predict_proba(f, settings.is_trained, model_out)]
    /\ UNCHANGED <<settings, payees, review_queue, labels, embedding_cache, result, batch, reqs>>

NextScore == PredictProba \/ ReturnCall

SpecScore == Init /\ [][NextScore]_vars

-----------------------------------------------------------------------------
(* Direct calls of rerank_with_llm *)

\* The replies the chat completion may give to the rerank prompt: it raises, or
\* answers a JSON object whose "same" is true, false, null, or a string, with a
\* confidence around 0.90.
RerankReplies ==
    {NoLLM} \cup {LLMReply(same, confidence) :
                     same \in {"true", "false", "null", "'false'", "'yes'"},
                     confidence \in {0, 89999, 90000, 99000}}

\* The probabilities of a best candidate the thresholds send to review.
BorderlineScores == {t_low, 80000, 95000, t_high - 1}

\* The borderline branch of _match_one_internal for the best candidate best:
\* rerank_with_llm(name_raw, scored_candidates[:5]) and, when the decision stays
\* needs_review, add_to_review_queue.
Reranked(name_raw, best, reply, rr, insert_fails) ==
    [fn |-> "rerank_with_llm", p |-> best[1].probability, reply |-> reply, rr |-> rr,
     enqueued |-> IF rr.decision = "needs_review"
                  THEN add_to_review_queue(name_raw, canonicalize(name_raw).canon, best,
                                           insert_fails)
                  ELSE <<>>]

Rerank ==
    /\ call.fn = "none"
    /\ \E p \in BorderlineScores, reply \in RerankReplies, insert_fails \in BOOLEAN :
          call' = Reranked(MergeQuery, <<[payee_id |-> 1, probability |-> p]>>, reply,
                           rerank_with_llm(<<[payee_id |-> 1, probability |-> p]>>,
                                           settings, reply),
                           insert_fails)
    /\ UNCHANGED <<settings, payees, review_queue, labels, embedding_cache, result, batch, reqs>>

NextRerank == Rerank \/ ReturnCall

SpecRerank == Init /\ [][NextRerank]_vars

-----------------------------------------------------------------------------
(* Direct calls of match_one with the outcomes of its storage statements *)

\* One call match_one(name_raw) together with what the storage, the model and
\* rapidfuzz answered to it (env) and what its get_candidates call returned (gc).
Matched(name_raw, env, gc, r) ==
    [fn |-> "match_one", name |-> name_raw, env |-> env, gc |-> gc, r |-> r]

MatchWithOutcomes ==
    /\ call.fn = "none"
    /\ \E name_raw \in Names : \E views \in ViewEnvs(name_raw, payees) :
       \E env \in ScoringEnvs(name_raw, payees, settings, views) :
          call' = Matched(name_raw, env, get_candidates(payees, settings, name_raw, env),
                          match_one(name_raw, payees, settings, env))
    /\ UNCHANGED <<settings, payees, review_queue, labels, embedding_cache, result, batch, reqs>>

NextOutcomes == MatchWithOutcomes \/ ReturnCall

SpecOutcomes == Init /\ [][NextOutcomes]_vars

-----------------------------------------------------------------------------
(* Direct calls of check_abbreviation *)

\* The length of the longest text compared.
MaxTextLen == 4

\* The texts compared: every string of letters a, b and spaces up to MaxTextLen.
AbbrTexts == UNION {[1..n -> {"a", "b", " "}] : n \in 0..MaxTextLen}

CheckAbbreviation ==
    /\ call.fn = "none"
    /\ \E text1 \in AbbrTexts, text2 \in AbbrTexts :
          call' = [fn |-> "check_abbreviation", text1 |-> text1, text2 |-> text2,
                   out |-> check_abbreviation(text1, text2)]
    /\ UNCHANGED <<settings, payees, review_queue, labels, embedding_cache, result, batch, reqs>>

NextAbbr == CheckAbbreviation \/ ReturnCall

SpecAbbr == Init /\ [][NextAbbr]_vars

-----
(* Properties of POST /match, checked under Spec *)

Answered == result.status = "returned"

\* The highest probability among the candidates of the response.
TopProbability ==
    SeqMax([i \in 1..Len(result.candidates) |-> result.candidates[i].probability])

\* The open review rows of the query just answered.
OpenRowsOfQuery ==
    {i \in 1..Len(review_queue) :
        /\ review_queue[i].q_name_raw = result.query
        /\ review_queue[i].q_name_canon = result.canon
        /\ review_queue[i].status = "open"}

\* C1: when match_one has scored at least one candidate and the LLM reranker is
\* disabled, the decision is auto_match iff p >= t_high, needs_review iff
\* t_low <= p < t_high and no_match iff p < t_low, where p is the highest
\* candidate probability, and the returned confidence equals p.
C1_ThresholdDecision ==
    (Answered /\ result.candidates # <<>> /\ settings.rerank_provider # "openai")
    => /\ result.decision = "auto_match" <=> TopProbability >= t_high
       /\ result.decision = "needs_review" <=>
             (t_low <= TopProbability /\ TopProbability < t_high)
       /\ result.decision = "no_match" <=> TopProbability < t_low
       /\ result.confidence = TopProbability

\* A response with two scored candidates, the reranker disabled, whose best
\* probability sits exactly on t_high while the other is lower.
C1_Witness ==
    /\ Answered /\ settings.rerank_provider # "openai"
    /\ Len(result.candidates) = 2
    /\ result.candidates[1].probability = t_high
    /\ result.candidates[2].probability < t_high
    /\ result.decision = "auto_match"

\* C2: a query whose non-empty canonical form equals the name_canon of a payee,
\* and whose exact probe found that payee, is answered auto_match with
\* confidence exactly 1.0 and that payee as matched_payee.
C2_ExactIsCertain ==
    (Answered /\ result.canon # "" /\ result.trace.views = {"exact"})
    => /\ result.decision = "auto_match"
       /\ result.confidence = ONE
       /\ result.matched_payee.payee_id \in
             {id \in DOMAIN payees : payees[id].name_canon = result.canon}

\* C3: after a match_one call that returns needs_review the review queue holds
\* exactly one open row for that query, neither zero nor several.
C3_ExactlyOneOpenRow ==
    (Answered /\ result.decision = "needs_review") => Cardinality(OpenRowsOfQuery) = 1

\* C4: a raw name whose canonical form is empty is answered no_match with
\* confidence 0.0, no matched payee, no candidates and reason "Empty or invalid
\* name"; the call runs no candidate view and writes to no table.
C4_EmptyNameInert ==
    [][(result.status = "idle" /\ result'.status # "idle" /\ result'.canon = "")
       => /\ result'.status = "returned"
          /\ result'.decision = "no_match"
          /\ result'.confidence = 0
          /\ result'.matched_payee = NoPayee
          /\ result'.candidates = <<>>
          /\ result'.reason = "Empty or invalid name"
          /\ result'.trace.views = {}
          /\ result'.trace.embeds = 0
          /\ UNCHANGED <<payees, review_queue, labels, embedding_cache>>]_vars

\* A name made only of filler words has been answered while the review queue
\* already held a row.
C4_Witness ==
    /\ Answered /\ result.canon = ""
    /\ result.query = <<"t","h","e"," ","c","o">>
    /\ review_queue # <<>>

\* C9: a failure inside one of the views of get_candidates, the query-embedding
\* lookup of the vector view included, does not propagate: a match call that
\* raises has got past get_candidates to the per-candidate row fetches.
C9_ViewFailureIsolated ==
    result.status = "raised" => result.trace.fetches > 0

\* C10: whatever storage statements fail during a match (exact probe, view
\* queries, payee row fetches, review-queue insert), match_one does not raise
\* and returns one of the three decisions.  Stated for deployments without an
\* embeddings provider, where the storage statements are the only failures.
C10_NeverRaises ==
    (result.status # "idle" /\ settings.embeddings_provider = "none")
    => /\ Answered
       /\ result.decision \in {"auto_match", "needs_review", "no_match"}



\* C19: the LLM is consulted only when the threshold decision on the best
\* probability is needs_review and rerank_provider is openai; a response whose
\* threshold decision is auto_match or no_match keeps that decision and the
\* best probability as confidence.
C19_RerankOnlyBorderline ==
    (Answered /\ result.candidates # <<>>)
    => /\ result.trace.llm_called
          => (Threshold(TopProbability) = "needs_review" /\ settings.rerank_provider = "openai")
       /\ Threshold(TopProbability) # "needs_review"
          => (result.decision = Threshold(TopProbability) /\ result.confidence = TopProbability)

\* The LLM was consulted on a borderline result and raised it to auto_match,
\* under a deployment that also answers queries above t_high.
C19_Witness ==
    /\ Answered /\ settings.rerank_provider = "openai"
    /\ result.trace.llm_called
    /\ Threshold(TopProbability) = "needs_review"
    /\ result.decision = "auto_match"

\* C27: match_one writes no payee and no label row, and it adds a review_queue
\* row only when its final decision is needs_review: a call answered auto_match
\* (also when the LLM reranker raised it to that) or no_match leaves the review
\* queue as it was.
C27_WritesOnlyReviewItems ==
    [][(result.status = "idle" /\ result'.status # "idle")
       => /\ payees' = payees /\ labels' = labels
          /\ result'.trace.writes \subseteq {"review_queue"}
          /\ result'.decision # "needs_review"
             => (review_queue' = review_queue /\ result'.trace.writes = {})
          /\ Len(review_queue') <= Len(review_queue) + 1
          /\ SubSeq(review_queue', 1, Len(review_queue)) = review_queue]_vars

\* A borderline result the LLM reranker raised to auto_match, with nothing in
\* the review queue.
C27_Witness ==
    /\ Answered /\ result.decision = "auto_match"
    /\ result.trace.llm_called /\ Threshold(result.trace.p) = "needs_review"
    /\ result.trace.writes = {}
    /\ review_queue = <<>>

\* C28: in every result of match_one, matched_payee is given iff the decision
\* is auto_match, and it is then the first of the returned candidates, which
\* has the highest probability among them.
C28_MatchedPayeeIffAuto ==
    Answered
    => /\ result.matched_payee # NoPayee <=> result.decision = "auto_match"
       /\ result.decision = "auto_match"
          => /\ result.candidates # <<>>
             /\ result.matched_payee.payee_id = result.candidates[1].payee_id
             /\ result.matched_payee.name = result.candidates[1].name
             /\ result.candidates[1].probability = TopProbability

\* An auto_match among two scored candidates of different probability.
C28_Witness ==
    /\ Answered /\ result.decision = "auto_match"
    /\ Len(result.candidates) = 2
    /\ result.candidates[2].probability < result.candidates[1].probability
    /\ result.matched_payee.payee_id = result.candidates[1].payee_id

\* C29: in every result of match_one, with or without the LLM reranker, the
\* decision agrees with the band of the returned confidence: auto_match has
\* confidence >= t_high, needs_review has t_low <= confidence < t_high, and
\* no_match has confidence < t_low.
C29_DecisionMatchesBand ==
    Answered => result.decision = Threshold(result.confidence)

\* C29 as the code has it: the decision agrees with the band of the returned
\* confidence unless the LLM reranker raised a borderline result to auto_match;
\* the confidence is then max(p, llm_confidence), at least 0.90 and at least the
\* best probability p, and may lie below t_high.
C29_BandUnlessReranked ==
    Answered
    => \/ result.decision = Threshold(result.confidence)
       \/ /\ result.decision = "auto_match"
          /\ settings.rerank_provider = "openai" /\ result.trace.llm_called
          /\ Threshold(result.trace.p) = "needs_review"
          /\ result.confidence >= 90000
          /\ result.confidence >= result.trace.p

\* An auto_match the reranker produced with a confidence below t_high.
C29_Witness ==
    /\ Answered /\ result.decision = "auto_match"
    /\ result.trace.llm_called
    /\ result.confidence = 90000
    /\ result.trace.p < 90000

-----------------------------------------------------------------------------
(* Properties of POST /match/batch, checked under SpecBatch *)

BatchDone == batch.phase = "done"

\* C5: match_batch returns its results in input order, results[i].query =
\* names[i], whatever the chunk size, the number of worker threads and the order
\* in which the chunks complete.  Stated for requests none of whose chunks
\* failed.
C5_InputOrder ==
    (/\ BatchDone /\ batch.mode = "batch"
     /\ \A k \in 1..Len(batch.chunks) : batch.chunks[k].state = "done")
    => /\ Len(batch.results) = Len(batch.names)
       /\ \A i \in 1..Len(batch.results) : batch.results[i].query = batch.names[i]

\* C6: the streaming generator and match_batch both produce exactly one result
\* per input name, also when matching a name or processing a chunk raises.
C6_OneResultPerInput ==
    BatchDone => Len(batch.results) = Len(batch.names)



-----------------------------------------------------------------------------
(* Properties of the review endpoints, checked under SpecReview *)

Succeeded(i) == reqs[i].pc = "done" /\ reqs[i].response = "ok"

\* The label rows request i has inserted.
LabelsOf(i) == {j \in 1..Len(labels) : labels[j].meta = reqs[i].decision.notes}

\* C7: a review item's status changes at most once: of the approve and reject
\* calls on one item, in sequence or concurrently, at most one succeeds.
C7_AtMostOneDecision ==
    \A i, j \in 1..Len(reqs) :
        (Succeeded(i) /\ Succeeded(j) /\ reqs[i].rq_id = reqs[j].rq_id) => i = j

NamesPayee(i) ==
    IF reqs[i].kind = "approve"
    THEN reqs[i].decision.approved /\ reqs[i].decision.payee_id # 0
    ELSE reqs[i].decision.payee_id # 0

-----------------------------------------------------------------------------
(* Properties of the direct calls *)

\* C11: the result of match_one (decision, matched payee, confidence) is the
\* same for every order in which the view lists are merged, given the same
\* lists, also when candidates tie and when the union is truncated to k_union.
C11_MergeOrderIrrelevant ==
    call.fn = "union_candidates"
    => /\ call.result.decision = call.swapped.decision
       /\ call.result.matched_payee = call.swapped.matched_payee
       /\ call.result.confidence = call.swapped.confidence

\* Is entry a before entry b in the order max_score descending, num_sources
\* descending, payee_id ascending?
RanksBefore(a, b) ==
    \/ a.max_score > b.max_score
    \/ a.max_score = b.max_score /\ a.num_sources > b.num_sources
    \/ a.max_score = b.max_score /\ a.num_sources = b.num_sources /\ a.payee_id < b.payee_id

\* The payees and the view scores seen in the lists of the direct call.
SeenIn(lists) ==
    UNION {{<<lists[i][j][1], lists[i][j][3][1], lists[i][j][2]>> : j \in 1..Len(lists[i])}
           : i \in 1..Len(lists)}

\* C24: union_candidates returns the first k_union entries of the deduplicated
\* payees (each payee once, with the view scores seen for it) in the order
\* max_score descending, num_sources descending, payee_id ascending, whatever
\* the order of the input lists.  Checked under SpecMerge.
C24_UnionIsTopK ==
    call.fn = "union_candidates" =>
        LET u == union_candidates(NonEmpty(call.lists))
            v == union_candidates(NonEmpty(<<call.lists[2], call.lists[1]>>))
            ids == {t[1] : t \in SeenIn(call.lists)}
        IN /\ Len(u) = Min(k_union, Cardinality(ids))
           /\ \A i, j \in 1..Len(u) : i < j => RanksBefore(u[i], u[j])
           /\ \A i \in 1..Len(u) :
                 \A t \in DOMAIN u[i].scores :
                    <<u[i].payee_id, t, u[i].scores[t]>> \in SeenIn(call.lists)
           /\ [i \in 1..Len(u) |-> u[i].payee_id] = [i \in 1..Len(v) |-> v[i].payee_id]

\* Is scored candidate a before b in the order probability descending,
\* num_sources descending, payee_id ascending?
ScoredBefore(a, b) ==
    \/ a.probability > b.probability
    \/ a.probability = b.probability /\ Len(a.sources) > Len(b.sources)
    \/ /\ a.probability = b.probability /\ Len(a.sources) = Len(b.sources)
       /\ a.payee_id < b.payee_id

\* C25: the scored candidates of a match are in the order probability
\* descending, then num_sources descending, then payee_id ascending, so that
\* the first one, which drives the decision, is the same whatever the order in
\* which the candidates were scored.  Checked under SpecMerge.
C25_ScoredOrderIsTotal ==
    (call.fn = "union_candidates" /\ call.result.status = "returned"
     /\ call.swapped.status = "returned")
    => /\ \A i, j \in 1..Len(call.result.candidates) :
             i < j => ScoredBefore(call.result.candidates[i], call.result.candidates[j])
       /\ call.result.candidates # <<>>
          => call.result.candidates[1].payee_id = call.swapped.candidates[1].payee_id

\* C30: after a get_embedding(t) call that met no cache-write error, a later
\* get_embedding(t) under the same provider and model is answered from the
\* persistent embedding cache: it returns the vector, and the cache holds an
\* entry.  No call of the model ends in a cache-write error, the cache write
\* being never reached.  Stated for non-empty texts, the empty text being
\* answered with the zero vector without the cache.  Checked under SpecEmbed.
C30_LaterCallFromCache ==
    call.fn = "get_embedding" =>
        \A i, j \in 1..Len(call.log) :
            (i < j /\ call.log[i].text = call.log[j].text /\ call.log[i].text # "")
            => /\ ~call.log[j].out.raised
               /\ call.log[j].out.vec # "none"
               /\ embedding_cache # {}

RECURSIVE OccursInOrder(_, _)
\* Do the characters of s occur in l in the same order?
OccursInOrder(s, l) ==
    \/ s = <<>>
    \/ /\ l # <<>>
       /\ \/ Head(s) = Head(l) /\ OccursInOrder(Tail(s), Tail(l))
          \/ OccursInOrder(s, Tail(l))

\* C26: check_abbreviation returns 1 exactly when the shorter text is strictly
\* less than half as long as the longer one and its non-space characters occur
\* in the longer one in the same order; it returns 0 for all other pairs, equal
\* lengths and a shorter text exactly half as long included.  Checked under
\* SpecAbbr.
C26_AbbreviationStrictHalf ==
    call.fn = "check_abbreviation" =>
        LET shorter == IF Len(call.text1) < Len(call.text2) THEN call.text1 ELSE call.text2
            longer == IF Len(call.text1) < Len(call.text2) THEN call.text2 ELSE call.text1
        IN /\ call.out \in {0, ONE}
           /\ call.out = ONE <=>
                 /\ 2 * Len(shorter) < Len(longer)
                 /\ OccursInOrder(SelectSeq(shorter, LAMBDA c : c # " "), longer)

\* C15: any two get_embedding calls with the same canonical text return the
\* same vector: both calls return one, and the two are equal.  Checked under
\* SpecEmbed.
C15_SameTextSameVector ==
    call.fn = "get_embedding" =>
        \A i, j \in 1..Len(call.log) :
            call.log[i].text = call.log[j].text
            => /\ ~call.log[i].out.raised
               /\ ~call.log[j].out.raised
               /\ call.log[i].out.vec = call.log[j].out.vec

\* C16: canonicalize is idempotent: canonicalize applied to the canon of a name
\* returns that canon.  Checked under SpecCanon.
C16_CanonIdempotent ==
    call.fn = "canonicalize" => call.again.canon = call.out.canon

\* C17: canonicalize is permutation-invariant: two raw names made of the same
\* whitespace-separated tokens in different orders have the same canon, the
\* same tokens and the same dm_codes.  Checked under SpecCanon.
C17_PermutationInvariant ==
    call.fn = "canonicalize" =>
        /\ call.out.canon = call.out_other.canon
        /\ call.out.tokens = call.out_other.tokens
        /\ call.out.dm_codes = call.out_other.dm_codes

\* Two different tokens written in both orders, one of them a filler word.
C17_Witness ==
    /\ call.fn = "canonicalize"
    /\ call.name = <<"T","h","e"," ","z","e","t","a">>
    /\ call.other = <<"z","e","t","a"," ","T","h","e">>
    /\ call.out.canon = "zeta"

\* C18: the probability predict_proba returns for a candidate lies in [0, 1],
\* whether the heuristic scorer, the loaded model, or the heuristic after a
\* failed prediction of the model produced it.  Checked under SpecScore.
C18_ProbabilityInUnitInterval ==
    call.fn = "predict_proba" => (call.probability >= 0 /\ call.probability <= ONE)

\* The heuristic stands in for a model that raised, on a vector whose weighted
\* sum and bonuses exceed 1.
C18_Witness ==
    /\ call.fn = "predict_proba"
    /\ settings.is_trained /\ call.model_out.error
    /\ call.features.exact_match = 0
    /\ call.features.token_set_ratio = ONE /\ call.features.token_sort_ratio = ONE
    /\ call.features.jaro_winkler = ONE /\ call.features.levenshtein = ONE
    /\ call.features.is_abbreviation = ONE /\ call.features.has_common_variation = ONE
    /\ call.features.len_ratio = ONE
    /\ call.probability = ONE

\* The reply for which rerank_with_llm is to upgrade: the call was made and
\* answered same = true with a confidence of at least 0.90.
Agrees(reply) ==
    /\ settings.openai_api_key /\ ~reply.error
    /\ reply.same = "true" /\ reply.confidence >= 90000

\* C20: rerank_with_llm returns auto_match with confidence max(p, llm_confidence)
\* iff the LLM call succeeds with same = true and llm_confidence >= 0.90; in
\* every other case it returns needs_review with the confidence p of the top
\* candidate, and the item is then enqueued for review.  Checked under SpecRerank.
C20_RerankOutcome ==
    call.fn = "rerank_with_llm" =>
        IF Agrees(call.reply)
        THEN /\ call.rr.decision = "auto_match"
             /\ call.rr.confidence = Max(call.p, call.reply.confidence)
        ELSE /\ call.rr.decision = "needs_review"
             /\ call.rr.confidence = call.p
             /\ call.enqueued # <<>>

\* C21: when the exact probe finds no row and the trigram and phonetic queries
\* both fail (no embeddings provider is configured, so these are all the views
\* of the call), match_one returns no_match with reason "storage unavailable".
\* Checked under SpecOutcomes.
C21_StorageUnavailable ==
    (/\ call.fn = "match_one"
     /\ settings.embeddings_provider = "none"
     /\ canonicalize(call.name).dm_codes # {}
     /\ ~call.env.exact.error /\ call.env.exact.rows = <<>>
     /\ call.env.trgm.error /\ call.env.dm.error)
    => /\ call.r.status = "returned"
       /\ call.r.decision = "no_match"
       /\ call.r.reason = "storage unavailable"

\* C23: when the exact probe returns a row, get_candidates sends no trigram,
\* vector or phonetic query and makes no embedding call, and the shortlist is
\* that one payee with the single view score exact = 1.0.  Checked under
\* SpecOutcomes.
C23_ExactFastPath ==
    (/\ call.fn = "match_one" /\ canonicalize(call.name).canon # ""
     /\ ~call.env.exact.error /\ call.env.exact.rows # <<>>)
    => /\ ~call.gc.raised
       /\ call.gc.views = {"exact"}
       /\ call.gc.embeds = 0
       /\ Len(call.gc.candidates) = 1
       /\ call.gc.candidates[1].payee_id = call.env.exact.rows[1]
       /\ DOMAIN call.gc.candidates[1].scores = {"exact"}
       /\ call.gc.candidates[1].scores["exact"] = ONE
       /\ call.r.trace.views = {"exact"} /\ call.r.trace.embeds = 0

\* The probe finds payee 1 for 'acme' under a deployment with an embeddings
\* provider, where the vector view would otherwise run.
C23_Witness ==
    /\ call.fn = "match_one" /\ call.name = <<"a","c","m","e">>
    /\ settings.embeddings_provider = "openai"
    /\ call.env.exact.rows = <<1>>
    /\ call.gc.candidates[1].payee_id = 1

-----------------------------------------------------------------------------
(* Properties of POST /payees/ingest, checked under SpecIngest *)

IngestDone(i) == reqs[i].kind = "ingest" /\ reqs[i].pc = "done"

\* C13: ingesting a payee whose external id is already in the registry updates
\* that row and adds none: the request counts it under updated, not inserted
\* (nor under errors), also when the id occurred earlier in the same request.
C13_KnownIdUpdates ==
    \A i \in 1..Len(reqs) :
        IngestDone(i) =>
            \A n \in 1..Len(reqs[i].rows) : reqs[i].known[n] => reqs[i].log[n] = "updated"

\* C14: whatever ingest requests ran, concurrently or not, no two payee rows
\* share a non-null external id.
C14_ExternalIdUnique ==
    \A a, b \in DOMAIN payees :
        (a # b /\ payees[a].bq_supplier_id # "None")
        => payees[a].bq_supplier_id # payees[b].bq_supplier_id

\* Two requests carrying the unseen external id S9 overlapped: both looked it up
\* before either had written, one committed the row and the other failed.
C14_Witness ==
    \E i, j \in 1..Len(reqs) :
        /\ i # j /\ IngestDone(i) /\ IngestDone(j)
        /\ reqs[i].rows[1].payee_id = "S9" /\ reqs[j].rows[1].payee_id = "S9"
        /\ ~reqs[i].known[1] /\ ~reqs[j].known[1]
        /\ reqs[i].log[1] = "inserted" /\ reqs[j].log[1] = "error"
        /\ Cardinality({a \in DOMAIN payees : payees[a].bq_supplier_id = "S9"}) = 1

\* C22: a failure on one payee of an ingest request is counted for that payee
\* only: when the request commits, its counts add up to the number of payees,
\* and every payee it counts as inserted or updated is then a row of the
\* registry, under its external id and with its name.
C22_ErrorsIsolatedPerRow ==
    [][\A i \in 1..Len(reqs) :
          (reqs[i].kind = "ingest" /\ reqs[i].pc = "commit"
           /\ Len(reqs') = Len(reqs) /\ reqs'[i].pc = "done")
          => /\ reqs'[i].response.inserted + reqs'[i].response.updated
                + reqs'[i].response.errors = Len(reqs[i].rows)
             /\ \A n \in 1..Len(reqs[i].rows) :
                   reqs[i].log[n] # "error"
                   => \E id \in DOMAIN payees' :
                         /\ payees'[id].bq_supplier_id = reqs[i].rows[n].payee_id
                         /\ payees'[id].name_raw = reqs[i].rows[n].name]_vars

\* C12: once ingest_payees has accepted and committed a raw name n, match_one(n)
\* returns auto_match with confidence >= t_high and a matched payee whose
\* name_canon is canonicalize(n).canon.  Checked under SpecRoundTrip, and stated
\* for the calls in which no storage statement fails: the call returns and has
\* needed no view beyond the exact probe.
C12_IngestThenMatch ==
    (/\ result.status = "returned" /\ result.query \in Accepted
     /\ result.trace.views \subseteq {"exact"})
    => /\ result.decision = "auto_match"
       /\ result.confidence >= t_high
       /\ result.matched_payee.payee_id \in DOMAIN payees
       /\ payees[result.matched_payee.payee_id].name_canon = result.canon


=============================================================================
